---- MODULE Spec2Model ----
(***************************************************************************)
(* OneTap Reply content script (context-aware version src/unnamed/part_000 *)
(* and simplified version src/content.js) as a state machine.              *)
(*                                                                         *)
(* The script is single threaded and event driven.  Every action below is  *)
(* one task of the event loop (a timer callback, a DOM event listener, a   *)
(* mutation-observer callback) run to completion, or one step of the host  *)
(* page / the user (the environment).                                      *)
(*                                                                         *)
(* Part 1 models the change monitor and the comment-box scanner, part 2    *)
(* the text analyzer, the context extractor and the reply templates.       *)
(* Strings are strings of characters: Head, Tail, Len, SubSeq and \o act   *)
(* on them as on sequences of one-character strings.                       *)
(***************************************************************************)
EXTENDS Integers, Sequences, FiniteSets, TLC

(***************************************************************************)
(* Bounds of the model and constants of the program.                       *)
(***************************************************************************)
\* Bound: the counters of injected buttons and of injectUI calls saturate here.
MaxCount == 2

\* setTimeout(() => this.scanForCommentBoxes(), 500)
DebounceDelay == 500
\* setInterval(..., 1000)
PollInterval == 1000
\* setTimeout(() => this.scanForCommentBoxes(), 2000)
SettleDelay == 2000

\* Time advances in steps of 500 ms, the greatest common divisor of the delays
\* of the monitor's timers.
Ticks(ms) == ms \div 500

Platforms == {"YouTube", "LinkedIn"}
\* "part_000": the context-aware version; "content": the simplified version.
Variants == {"part_000", "content"}

\* The comment-box elements of the host page, and their document order.
Boxes == {"b1", "b2"}
DocOrder == <<"b1", "b2">>
Urls == {"/watch?v=1", "/watch?v=2"}

\* The layouts isValidCommentBox distinguishes.
Visible == [offsetParent |-> TRUE, width |-> 1, height |-> 1]
NoLayout == [offsetParent |-> FALSE, width |-> 0, height |-> 0]
ZeroWidth == [offsetParent |-> TRUE, width |-> 0, height |-> 1]
ZeroHeight == [offsetParent |-> TRUE, width |-> 1, height |-> 0]
Layouts == {Visible, NoLayout, ZeroWidth, ZeroHeight}
\* The page the monitor is checked on hides b1 with display:none and b2 by
\* collapsing it to zero width.
PageLayouts(b) == IF b = "b1" THEN {Visible, NoLayout} ELSE {Visible, ZeroWidth}

VARIABLES
    platform,     \* isYouTube / isLinkedIn, fixed by the constructor
    variant,      \* which of the two versions of the script runs
    loaded,       \* waitForPageLoad() has resolved and init's callback has run
    observing,    \* the MutationObserver is connected
    inDoc,        \* inDoc[b]: box b is attached to the document
    layout,       \* layout[b]: offsetParent and bounding rectangle of box b
    matches,      \* matches[b]: indices of the platform's selectors box b matches
    throwing,     \* indices of the selectors whose evaluation throws
    injectThrows, \* boxes for which a DOM call inside injectUI throws
    processed,    \* processed[b]: b carries the data-onetap-processed attribute
    buttons,      \* buttons[b]: floating buttons injected for box b so far
    injectCalls,  \* injectCalls[b]: calls of injectUI(b) since the last clearing
    url,          \* location.href
    lastUrl,      \* lastUrl of startUrlChangeListener's closure
    pollTimer,    \* <<>> or <<remaining ticks>> of the setInterval timer
    debounce,     \* pending timers set by the observer: [rem, handle]; handle
                  \* is TRUE for the timer this.scanTimeout refers to
    settle,       \* remaining ticks of the pending navigation rescan timers
    burst,        \* qualifying batches since the last debounced rescan (0, 1, 2 = more)
    quietScans,   \* scans run since a comment box or a marker last changed (0, 1, 2 = more)
    found,        \* the value findCommentBoxes returned last
    cleaned,      \* cleanup() has run
    pc,           \* position of the function being called
    page,         \* what the host page shows around the comment box
    failAt,       \* the extraction step that throws on this page, or "none"
    tone,         \* the tone identifier of the request
    ctxOut,       \* outcome of extractComprehensiveContext: [threw, ctx]
    postOut,      \* outcome of content.js's extractPostContent: [threw, text]
    fbOut,        \* outcome of generateFallbackReplies: [threw, replies]
    reply,        \* the reply text handed to insertReply
    boxKind,      \* boxKind[b]: contentEditable, tagName and ql-editor class of box b
    boxState,     \* boxState[b]: what has been written into box b
    rangeThrows,  \* the Range/Selection calls of setCursorToEnd throw
    activeUI,     \* this.activeUI: the index of a panel, 0 for null
    currentTarget,  \* this.currentTarget: a comment box, "null" for null
    panels,       \* the options panels created so far, in order of creation
    micro,        \* the continuations of showReplyOptions waiting as microtasks
    listenerTimers, \* pending 100 ms timers that will add a click listener
    clickListeners, \* click listeners registered on the document
    requests,     \* the generation requests started so far, in order
    wordsIn,      \* the words the text handed to the analyzer is made of
    textIn,       \* the text handed to the analyzer
    sentOut,      \* the value analyzeSentiment returned
    topicsOut,    \* the value extractTopics returned
    attempt       \* one callAIAPI attempt: its position, its abort timer, the endpoint

cfgVars == <<platform, variant>>
domVars == <<inDoc, layout, matches, throwing, injectThrows>>
markVars == <<processed, buttons, injectCalls>>
monVars == <<cfgVars, loaded, observing, domVars, markVars, url, lastUrl,
             pollTimer, debounce, settle, burst, quietScans, found, cleaned>>

extVars == <<page, failAt, tone, ctxOut, postOut, fbOut>>

insVars == <<reply, boxKind, boxState, rangeThrows>>

panelVars ==
    <<activeUI, currentTarget, panels, micro, listenerTimers, clickListeners, requests>>

txtVars == <<wordsIn, textIn, sentOut, topicsOut>>

callVars == <<attempt>>

vars == <<monVars, pc, extVars, insVars, panelVars, txtVars, callVars>>

\* An optional DOM text: whether the element exists, and its textContent.
Absent == [found |-> FALSE, text |-> ""]
Text(t) == [found |-> TRUE, text |-> t]

\* A page with none of the elements the extractor looks for.
EmptyPage ==
    [title |-> Absent, description |-> Absent, channelName |-> Absent,
     threads |-> <<>>, hops |-> -1, depth |-> 12, postText |-> Absent, postAuthor |-> Absent,
     postComments |-> <<>>]

NoTopics == [defined |-> FALSE, list |-> <<>>]
NoAuthor == [isObj |-> FALSE, name |-> "", str |-> ""]

\* const context = { platform, postContent: '', postTitle: '', authorInfo: '',
\*                   existingComments: [], sentiment: 'neutral' }; topics is
\* not a property yet.
newContext(p) ==
    [platform |-> p, postContent |-> "", postTitle |-> "", authorInfo |-> NoAuthor,
     existingComments |-> <<>>, sentiment |-> "neutral", topics |-> NoTopics]

\* The extraction and reply variables of a behaviour that never uses them.
ExtractIdle ==
    /\ page = EmptyPage
    /\ failAt = "none"
    /\ tone = "conversational"
    /\ ctxOut = [threw |-> FALSE, ctx |-> newContext("YouTube")]
    /\ postOut = [threw |-> FALSE, text |-> ""]
    /\ fbOut = [threw |-> FALSE, replies |-> <<>>]

\* A comment box as the page made it: a contenteditable div, a textarea, ...
Editable == [contentEditable |-> TRUE, tagName |-> "DIV", qlEditor |-> FALSE]
Textarea == [contentEditable |-> FALSE, tagName |-> "TEXTAREA", qlEditor |-> FALSE]
QuillEditor == [contentEditable |-> TRUE, tagName |-> "DIV", qlEditor |-> TRUE]
PlainDiv == [contentEditable |-> FALSE, tagName |-> "DIV", qlEditor |-> FALSE]
BoxKinds == {Editable, Textarea, QuillEditor, PlainDiv}

\* An empty comment box nothing has been written to: html is its innerHTML,
\* value the value of a textarea and dirty its dirty value flag, selStart and
\* selEnd the textarea's selection, wrote the property assigned last, events
\* the events dispatched on it, caretAtEnd whether the document's selection
\* is collapsed after its last child, selRangeSet whether setSelectionRange
\* was called on it.
EmptyBox ==
    [html |-> "", value |-> "", dirty |-> FALSE, selStart |-> 0, selEnd |-> 0,
     wrote |-> "none", events |-> <<>>, focused |-> FALSE, caretAtEnd |-> FALSE,
     selRangeSet |-> FALSE]

\* The insertion variables of a behaviour that never uses them.
InsertIdle ==
    /\ reply = ""
    /\ boxKind = [b \in Boxes |-> Editable]
    /\ boxState = [b \in Boxes |-> EmptyBox]
    /\ rangeThrows = FALSE

\* The panel variables of a behaviour that opens no panel.
PanelIdle ==
    /\ activeUI = 0
    /\ currentTarget = "null"
    /\ panels = <<>>
    /\ micro = <<>>
    /\ listenerTimers = 0
    /\ clickListeners = 0
    /\ requests = <<>>

\* The analyzer variables of a behaviour that never uses them.
TextIdle ==
    /\ wordsIn = <<>>
    /\ textIn = ""
    /\ sentOut = "neutral"
    /\ topicsOut = <<>>

\* A response to one fetch that never comes, or whose body never ends.
Never == [kind |-> "never", hasText |-> FALSE, text |-> ""]

\* callAIAPI has not been called: no timer, and an endpoint that sends nothing.
IdleAttempt ==
    [phase |-> "idle", armed |-> FALSE, left |-> 0, aborted |-> FALSE,
     headers |-> "never", body |-> Never, res |-> "none"]

\* The attempt of a behaviour that calls no endpoint.
CallIdle == attempt = IdleAttempt

(***************************************************************************)
(* Comment-box scanner.                                                    *)
(***************************************************************************)
\* The ordered selector list of findCommentBoxes for the platform.
selectors(p) ==
    IF p = "YouTube"
    THEN << "#placeholder-area textarea",
            "div[id=\"contenteditable-root\"]",
            "#reply-button-end textarea",
            "ytd-comment-replies-renderer textarea" >>
    ELSE << ".comments-comment-box .ql-editor",
            ".comments-comment-texteditor .ql-editor",
            ".comments-reply-box .ql-editor",
            "div[data-placeholder*=\"comment\"]" >>

SelectorIdx == 1..Len(selectors("YouTube"))

\* A faulty validation: the rectangle is not looked at.
isValidCommentBox_NoRect(b) == layout[b].offsetParent

\* if (!element || !element.offsetParent) return false;
\* return rect.width > 0 && rect.height > 0;
isValidCommentBox(b) ==
    IF ~layout[b].offsetParent THEN FALSE
    ELSE layout[b].width > 0 /\ layout[b].height > 0

\* document.querySelectorAll(selector) for a selector that does not throw: the
\* attached elements matching it, in document order.
querySelectorAll(i) ==
    SelectSeq(DocOrder, LAMBDA b : inDoc[b] /\ i \in matches[b])

\* A faulty loop: the try/catch encloses the whole forEach, so the first
\* selector that throws ends the scan.
RECURSIVE findLoop_Abort(_, _)
findLoop_Abort(i, boxes) ==
    IF i > Len(selectors(platform)) THEN boxes
    ELSE IF i \in throwing THEN boxes
    ELSE findLoop_Abort(i + 1, boxes \o SelectSeq(querySelectorAll(i), isValidCommentBox))

\* selectors.forEach(selector => { try { ... boxes.push(el) } catch (e) { warn } })
\* from selector i on, with the boxes pushed so far.
RECURSIVE findLoop(_, _)
findLoop(i, boxes) ==
    IF i > Len(selectors(platform)) THEN boxes
    ELSE IF i \in throwing THEN findLoop(i + 1, boxes)
    ELSE findLoop(i + 1, boxes \o SelectSeq(querySelectorAll(i), isValidCommentBox))

findCommentBoxes == findLoop(1, <<>>)

Sat(n) == IF n < MaxCount THEN n + 1 ELSE n

\* injectUI(commentBox): a floating button is appended to the box's container;
\* when findUIContainer returns nothing or a DOM call throws, the try/catch
\* swallows the failure and no button is appended.
injectUI(st, b) ==
    IF b \in injectThrows
    THEN [st EXCEPT !.injectCalls[b] = Sat(@)]
    ELSE [st EXCEPT !.buttons[b] = Sat(@), !.injectCalls[b] = Sat(@)]

\* Faulty loop bodies: no hasAttribute test; no setAttribute.
scanBox_NoTest(st, b) ==
    [injectUI(st, b) EXCEPT !.processed[b] = TRUE]

scanBox_NoMark(st, b) ==
    IF ~st.processed[b] THEN injectUI(st, b) ELSE st

\* The body of scanForCommentBoxes' forEach:
\* if (!box.hasAttribute(marker)) { this.injectUI(box); box.setAttribute(marker) }
scanBox(st, b) ==
    IF ~st.processed[b]
    THEN [injectUI(st, b) EXCEPT !.processed[b] = TRUE]
    ELSE st

RECURSIVE scanLoop(_, _)
scanLoop(list, st) ==
    IF list = <<>> THEN st
    ELSE scanLoop(Tail(list), scanBox(st, Head(list)))

\* scanForCommentBoxes(): the markers, buttons and injectUI calls after it.
scanForCommentBoxes ==
    scanLoop(findCommentBoxes,
             [processed |-> processed, buttons |-> buttons, injectCalls |-> injectCalls])

Range(s) == {s[i] : i \in 1..Len(s)}

\* The markers, buttons and injectUI calls of the state.
markState == [processed |-> processed, buttons |-> buttons, injectCalls |-> injectCalls]

\* A faulty navigation rescan: the markers are cleared when the timer fires.
navigationRescan_Clear(st) ==
    scanLoop(findCommentBoxes,
             [st EXCEPT !.processed = [b \in Boxes |-> IF inDoc[b] THEN FALSE ELSE @[b]]])

\* The callbacks of the debounce timer and of the navigation timer, on the
\* markers, buttons and calls st: () => this.scanForCommentBoxes()
mutationRescan(st) == scanLoop(findCommentBoxes, st)
navigationRescan(st) == scanLoop(findCommentBoxes, st)

\* The state takes the markers, buttons and calls res of a rescan.
Rescan(res) ==
    /\ processed' = res.processed
    /\ buttons' = res.buttons
    /\ injectCalls' = res.injectCalls
    /\ quietScans' = IF quietScans < 2 THEN quietScans + 1 ELSE quietScans

\* The effect of one call of scanForCommentBoxes on the state.
Scan ==
    /\ processed' = scanForCommentBoxes.processed
    /\ buttons' = scanForCommentBoxes.buttons
    /\ injectCalls' = scanForCommentBoxes.injectCalls
    /\ quietScans' = IF quietScans < 2 THEN quietScans + 1 ELSE quietScans

(***************************************************************************)
(* Change monitor: mutation observer with debounce, URL poll.              *)
(***************************************************************************)
\* clearTimeout(this.scanTimeout): cancels the timer the handle refers to, if it
\* is still pending.
clearTimeout(ts) == SelectSeq(ts, LAMBDA t : ~t.handle)

\* this.scanTimeout = setTimeout(..., 500): a new timer; the handle now refers
\* to it alone.
setScanTimeout(ts) ==
    [i \in 1..Len(ts) |-> [ts[i] EXCEPT !.handle = FALSE]]
        \o << [rem |-> Ticks(DebounceDelay), handle |-> TRUE] >>

\* A faulty callback: the pending timer is not cancelled.
onShouldScan_NoClear(ts) == setScanTimeout(ts)

\* if (shouldScan) { clearTimeout(this.scanTimeout); this.scanTimeout = setTimeout(...) }
onShouldScan(ts) == setScanTimeout(clearTimeout(ts))

\* The observer's callback for one batch of mutations; related: some added
\* element node satisfies isCommentRelatedElement.
ObserverCallback(related) ==
    IF observing /\ related
    THEN /\ debounce' = onShouldScan(debounce)
         /\ burst' = IF burst < 2 THEN burst + 1 ELSE burst
    ELSE UNCHANGED <<debounce, burst>>

\* A faulty poll handler: the markers are left in place.
clearMarkers_None(proc) == proc

\* document.querySelectorAll('[data-onetap-processed]').forEach(el =>
\*     el.removeAttribute('data-onetap-processed'))
clearMarkers(proc) ==
    [b \in Boxes |-> IF inDoc[b] THEN FALSE ELSE proc[b]]

\* init(): waitForPageLoad().then(() => { startObserving(); scanForCommentBoxes();
\* startUrlChangeListener(); })
PageLoad ==
    /\ ~loaded
    /\ loaded' = TRUE
    /\ observing' = TRUE
    /\ Scan
    /\ lastUrl' = url
    /\ pollTimer' = << Ticks(PollInterval) >>
    /\ UNCHANGED <<cfgVars, cleaned, domVars, url, debounce, settle, burst, found>>

\* The debounce timer fires: () => this.scanForCommentBoxes()
DebounceFire ==
    \E i \in 1..Len(debounce) :
        /\ debounce[i].rem = 0
        /\ debounce' = SubSeq(debounce, 1, i - 1) \o SubSeq(debounce, i + 1, Len(debounce))
        /\ Rescan(mutationRescan(markState))
        /\ burst' = 0
        /\ UNCHANGED <<cfgVars, cleaned, loaded, observing, domVars, url, lastUrl,
                       pollTimer, settle, found>>

\* The interval callback when location.href === lastUrl.
UrlPollSame ==
    /\ pollTimer = <<0>>
    /\ url = lastUrl
    /\ pollTimer' = << Ticks(PollInterval) >>
    /\ UNCHANGED <<cfgVars, cleaned, loaded, observing, domVars, markVars, url, lastUrl,
                   debounce, settle, burst, quietScans, found>>

\* A faulty poll handler: one navigation timer, restarted at every change.
scheduleRescan_Restart(ts) == << Ticks(SettleDelay) >>

\* setTimeout(() => this.scanForCommentBoxes(), 2000): a new timer; no handle
\* to it is kept.
scheduleRescan(ts) == Append(ts, Ticks(SettleDelay))

\* The interval callback of part_000 when location.href !== lastUrl: clear the
\* markers and schedule the rescan.
UrlPollChanged ==
    /\ variant = "part_000"
    /\ pollTimer = <<0>>
    /\ url # lastUrl
    /\ pollTimer' = << Ticks(PollInterval) >>
    /\ lastUrl' = url
    /\ processed' = clearMarkers(processed)
    /\ injectCalls' = [b \in Boxes |-> 0]
    /\ quietScans' = 0
    /\ settle' = scheduleRescan(settle)
    /\ UNCHANGED <<cfgVars, cleaned, loaded, observing, domVars, buttons, url, debounce,
                   burst, found>>

\* The interval callback of content.js when location.href !== lastUrl: rescan
\* at once; no marker is removed.
UrlPollChangedSimple ==
    /\ variant = "content"
    /\ pollTimer = <<0>>
    /\ url # lastUrl
    /\ pollTimer' = << Ticks(PollInterval) >>
    /\ lastUrl' = url
    /\ Scan
    /\ UNCHANGED <<cfgVars, cleaned, loaded, observing, domVars, url, debounce, settle,
                   burst, found>>

\* A navigation rescan timer fires: () => this.scanForCommentBoxes()
SettleFire ==
    /\ settle # <<>>
    /\ Head(settle) = 0
    /\ settle' = Tail(settle)
    /\ Rescan(navigationRescan(markState))
    /\ UNCHANGED <<cfgVars, cleaned, loaded, observing, domVars, url, lastUrl, pollTimer,
                   debounce, burst, found>>

\* 500 ms pass.  A timer that is due fires before time advances further.
TimersDue ==
    \/ pollTimer = <<0>>
    \/ \E i \in 1..Len(debounce) : debounce[i].rem = 0
    \/ \E i \in 1..Len(settle) : settle[i] = 0

Tick ==
    /\ loaded
    /\ ~TimersDue
    /\ pollTimer' = [i \in 1..Len(pollTimer) |-> pollTimer[i] - 1]
    /\ debounce' = [i \in 1..Len(debounce) |-> [debounce[i] EXCEPT !.rem = @ - 1]]
    /\ settle' = [i \in 1..Len(settle) |-> settle[i] - 1]
    /\ UNCHANGED <<cfgVars, cleaned, loaded, observing, domVars, markVars, url, lastUrl,
                   burst, quietScans, found>>

hideActiveUI_Keep(ps) == UNCHANGED <<activeUI, currentTarget, panels, clickListeners>>

\* A faulty hideActiveUI: this.currentTarget is left as it is.
hideActiveUI_KeepTarget(ps) ==
    /\ panels' = IF activeUI # 0 THEN [ps EXCEPT ![activeUI].attached = FALSE] ELSE ps
    /\ activeUI' = 0
    /\ UNCHANGED <<currentTarget, clickListeners>>

\* hideActiveUI(), ps being the panels as the handler has changed them so
\* far.  removeEventListener is given a function bind() has just made, which
\* is no registered listener: none is removed.
hideActiveUI(ps) ==
    /\ panels' = IF activeUI # 0 THEN [ps EXCEPT ![activeUI].attached = FALSE] ELSE ps
    /\ activeUI' = 0
    /\ currentTarget' = IF activeUI # 0 THEN "null" ELSE currentTarget
    /\ UNCHANGED clickListeners

\* The beforeunload listener: cleanup().  The observer, if there is one, is
\* disconnected, the active panel is removed and the timer this.scanTimeout
\* refers to is cancelled.  The page may stay (the navigation is cancelled,
\* or was a download), and tasks still run until it is gone.
Cleanup ==
    /\ cleaned' = TRUE
    /\ observing' = FALSE
    /\ hideActiveUI(panels)
    /\ debounce' = clearTimeout(debounce)
    /\ UNCHANGED <<cfgVars, loaded, domVars, markVars, url, lastUrl, pollTimer,
                   settle, burst, quietScans, found>>

(***************************************************************************)
(* The host page.                                                          *)
(***************************************************************************)
\* The page attaches box b (one mutation batch).
AddBox(b, lay, related) ==
    /\ ~inDoc[b]
    /\ inDoc' = [inDoc EXCEPT ![b] = TRUE]
    /\ layout' = [layout EXCEPT ![b] = lay]
    /\ quietScans' = 0
    /\ ObserverCallback(related)
    /\ UNCHANGED <<cfgVars, cleaned, loaded, observing, matches, throwing, injectThrows, markVars, url,
                   lastUrl, pollTimer, settle, found>>

\* The page detaches box b: a batch with removed nodes only.  A detached
\* element has no layout box.
RemoveBox(b) ==
    /\ inDoc[b]
    /\ inDoc' = [inDoc EXCEPT ![b] = FALSE]
    /\ layout' = [layout EXCEPT ![b] = NoLayout]
    /\ quietScans' = 0
    /\ ObserverCallback(FALSE)
    /\ UNCHANGED <<cfgVars, cleaned, loaded, observing, matches, throwing, injectThrows, markVars,
                   url, lastUrl, pollTimer, settle, found>>

\* The page shows, hides or resizes box b: no childList mutation.
SetLayout(b, lay) ==
    /\ inDoc[b]
    /\ layout[b] # lay
    /\ layout' = [layout EXCEPT ![b] = lay]
    /\ quietScans' = 0
    /\ UNCHANGED <<cfgVars, cleaned, loaded, observing, inDoc, matches, throwing, injectThrows, markVars,
                   url, lastUrl, pollTimer, debounce, settle, burst, found>>

\* The page adds a comment-related node that holds no comment box.
RelatedNodeAdded ==
    /\ observing
    /\ ObserverCallback(TRUE)
    /\ UNCHANGED <<cfgVars, cleaned, loaded, observing, domVars, markVars, url, lastUrl,
                   pollTimer, settle, quietScans, found>>

\* The nodes a mutation record may list as added: an element that matches a
\* comment-related selector or not and holds a descendant that matches one
\* or not, or a text node.
ELEMENT_NODE == 1
TEXT_NODE == 3
Nodes ==
    [nodeType : {ELEMENT_NODE}, matches : BOOLEAN, holds : BOOLEAN]
        \cup {[nodeType |-> TEXT_NODE, matches |-> FALSE, holds |-> FALSE]}

\* The added nodes of a batch: none (removals only), one or two.
Batches == {<<>>} \cup {<<n>> : n \in Nodes} \cup {<<n, k>> : n, k \in Nodes}

\* commentSelectors.some(selector => element.matches(selector) ||
\*                                   element.querySelector(selector))
isCommentRelatedElement(node) == node.matches \/ node.holds

\* A faulty callback: every added node asks for a rescan.
shouldScan_AnyNode(added) == added # <<>>

\* The flag shouldScan after the forEach over the added nodes of the batch.
shouldScan(added) ==
    \E i \in 1..Len(added) :
        added[i].nodeType = ELEMENT_NODE /\ isCommentRelatedElement(added[i])

\* The page changes nodes that are no comment boxes: the observer's callback
\* runs for the batch.
MutationBatch(added) ==
    /\ observing
    /\ ObserverCallback(shouldScan(added))
    /\ UNCHANGED <<cfgVars, cleaned, loaded, observing, domVars, markVars, url, lastUrl,
                   pollTimer, settle, quietScans, found>>

\* A client-side route change: location.href changes.
Navigate(u) ==
    /\ u # url
    /\ url' = u
    /\ UNCHANGED <<cfgVars, cleaned, loaded, observing, domVars, markVars, lastUrl,
                   pollTimer, debounce, settle, burst, quietScans, found>>


\* The page the monitor of variant v is checked on: b1 is matched by two
\* selectors.
MonitorStart(v) ==
    /\ platform = "YouTube"
    /\ variant = v
    /\ loaded = FALSE
    /\ observing = FALSE
    /\ inDoc \in [Boxes -> BOOLEAN]
    /\ layout = [b \in Boxes |-> IF inDoc[b] THEN Visible ELSE NoLayout]
    /\ matches = [b \in Boxes |-> IF b = "b1" THEN {3, 4} ELSE {1}]
    /\ throwing = {}
    /\ injectThrows = {}
    /\ processed = [b \in Boxes |-> FALSE]
    /\ buttons = [b \in Boxes |-> 0]
    /\ injectCalls = [b \in Boxes |-> 0]
    /\ url \in Urls
    /\ lastUrl = url
    /\ pollTimer = <<>>
    /\ debounce = <<>>
    /\ settle = <<>>
    /\ burst = 0
    /\ quietScans = 0
    /\ found = <<>>
    /\ cleaned = FALSE
    /\ pc = "idle"
    /\ ExtractIdle
    /\ InsertIdle
    /\ PanelIdle
    /\ TextIdle
    /\ CallIdle

MonitorInit == MonitorStart("part_000")

\* The variables the monitor leaves alone.
monRest == <<pc, extVars, insVars, panelVars, txtVars, callVars>>

MonitorNext ==
    \/ PageLoad /\ UNCHANGED monRest
    \/ DebounceFire /\ UNCHANGED monRest
    \/ UrlPollSame /\ UNCHANGED monRest
    \/ UrlPollChanged /\ UNCHANGED monRest
    \/ SettleFire /\ UNCHANGED monRest
    \/ Tick /\ UNCHANGED monRest
    \/ \E b \in Boxes, related \in BOOLEAN : \E lay \in PageLayouts(b) :
            AddBox(b, lay, related) /\ UNCHANGED monRest
    \/ \E b \in Boxes : RemoveBox(b) /\ UNCHANGED monRest
    \/ \E b \in Boxes : \E lay \in PageLayouts(b) : SetLayout(b, lay) /\ UNCHANGED monRest
    \/ RelatedNodeAdded /\ UNCHANGED monRest
    \/ \E u \in Urls : Navigate(u) /\ UNCHANGED monRest
    \/ Cleanup /\ UNCHANGED <<pc, extVars, insVars, micro, listenerTimers, requests, txtVars, callVars>>

SpecMonitor == MonitorInit /\ [][MonitorNext]_vars

\* The monitor of content.js: its interval callback rescans at once, and no
\* navigation timer exists.
SimpleInit == MonitorStart("content")

SimpleNext ==
    \/ PageLoad /\ UNCHANGED monRest
    \/ DebounceFire /\ UNCHANGED monRest
    \/ UrlPollSame /\ UNCHANGED monRest
    \/ UrlPollChangedSimple /\ UNCHANGED monRest
    \/ Tick /\ UNCHANGED monRest
    \/ \E b \in Boxes, related \in BOOLEAN : \E lay \in PageLayouts(b) :
            AddBox(b, lay, related) /\ UNCHANGED monRest
    \/ \E b \in Boxes : RemoveBox(b) /\ UNCHANGED monRest
    \/ \E b \in Boxes : \E lay \in PageLayouts(b) : SetLayout(b, lay) /\ UNCHANGED monRest
    \/ RelatedNodeAdded /\ UNCHANGED monRest
    \/ \E u \in Urls : Navigate(u) /\ UNCHANGED monRest
    \/ Cleanup /\ UNCHANGED <<pc, extVars, insVars, micro, listenerTimers, requests, txtVars, callVars>>

SpecSimple == SimpleInit /\ [][SimpleNext]_vars

\* The monitor on a page whose comment boxes stay as they are, with route
\* changes and comment-related mutations at any time.  Time passes, the load
\* event arrives, and a timer that is due fires.
SettleInit == MonitorInit /\ inDoc = [b \in Boxes |-> TRUE]

UrlPoll == UrlPollSame \/ UrlPollChanged

SettleNext ==
    \/ PageLoad /\ UNCHANGED monRest
    \/ DebounceFire /\ UNCHANGED monRest
    \/ UrlPollSame /\ UNCHANGED monRest
    \/ UrlPollChanged /\ UNCHANGED monRest
    \/ SettleFire /\ UNCHANGED monRest
    \/ Tick /\ UNCHANGED monRest
    \/ RelatedNodeAdded /\ UNCHANGED monRest
    \/ \E added \in Batches : MutationBatch(added) /\ UNCHANGED monRest
    \/ \E u \in Urls : Navigate(u) /\ UNCHANGED monRest

SpecSettle ==
    /\ SettleInit /\ [][SettleNext]_vars
    /\ WF_vars(PageLoad /\ UNCHANGED monRest)
    /\ WF_vars(Tick /\ UNCHANGED monRest)
    /\ WF_vars(DebounceFire /\ UNCHANGED monRest)
    /\ WF_vars(UrlPoll /\ UNCHANGED monRest)
    /\ WF_vars(SettleFire /\ UNCHANGED monRest)


(***************************************************************************)
(* Part 2.  Strings.                                                       *)
(***************************************************************************)
Min(a, b) == IF a < b THEN a ELSE b

CharsOf(s) == {SubSeq(s, i, i) : i \in 1..Len(s)}

UpperCase == "ABCDEFGHIJKLMNOPQRSTUVWXYZ"
LowerCase == "abcdefghijklmnopqrstuvwxyz"
Digits == "0123456789"

\* \w of a JavaScript regular expression: [A-Za-z0-9_]
IsWordChar(c) == c \in CharsOf(UpperCase) \cup CharsOf(LowerCase) \cup CharsOf(Digits) \cup {"_"}
\* \s of a JavaScript regular expression, for the characters of the model
IsSpace(c) == c \in {" ", "\n", "\t"}

RECURSIVE lowerChar(_, _, _)
lowerChar(c, up, lo) ==
    IF up = "" THEN c
    ELSE IF Head(up) = c THEN Head(lo)
    ELSE lowerChar(c, Tail(up), Tail(lo))

RECURSIVE upperChar(_, _, _)
upperChar(c, up, lo) ==
    IF lo = "" THEN c
    ELSE IF Head(lo) = c THEN Head(up)
    ELSE upperChar(c, Tail(up), Tail(lo))

\* String.prototype.toLowerCase, character by character; a long string is
\* converted half by half.
RECURSIVE toLowerCase(_)
toLowerCase(s) ==
    IF Len(s) > 16
    THEN toLowerCase(SubSeq(s, 1, Len(s) \div 2))
             \o toLowerCase(SubSeq(s, Len(s) \div 2 + 1, Len(s)))
    ELSE IF s = "" THEN ""
    ELSE lowerChar(Head(s), UpperCase, LowerCase) \o toLowerCase(Tail(s))

\* String.prototype.trim
RECURSIVE trimStart(_)
trimStart(s) == IF s # "" /\ IsSpace(Head(s)) THEN trimStart(Tail(s)) ELSE s

RECURSIVE trimEnd(_)
trimEnd(s) ==
    IF s # "" /\ IsSpace(SubSeq(s, Len(s), Len(s)))
    THEN trimEnd(SubSeq(s, 1, Len(s) - 1))
    ELSE s

trim(s) == trimEnd(trimStart(s))

\* s.substring(0, n)
substring0(s, n) == SubSeq(s, 1, Min(n, Len(s)))

\* Whether c is a separator of the regular expression re, one of /\W+/, /\s+/.
isSeparator(re, c) == IF re = "W+" THEN ~IsWordChar(c) ELSE IsSpace(c)

\* s.split(re) for re = (one separator character)+ : the pieces between the
\* maximal runs of separator characters, empty pieces at the ends included.
\* cur: the piece being read; inSep: the last character read was a separator.
RECURSIVE splitRuns(_, _, _, _)
splitRuns(s, re, cur, inSep) ==
    IF s = "" THEN << cur >>
    ELSE IF isSeparator(re, Head(s))
         THEN IF inSep THEN splitRuns(Tail(s), re, cur, TRUE)
              ELSE << cur >> \o splitRuns(Tail(s), re, "", TRUE)
         ELSE splitRuns(Tail(s), re, cur \o Head(s), FALSE)

\* s.split(re) from the start of s.  A long string is split half by half:
\* the last piece of the first half and the first piece of the second are one
\* piece, which is dropped when the cut lies inside a run of separators.
RECURSIVE split(_, _)
split(s, re) ==
    IF Len(s) > 16
    THEN LET h == Len(s) \div 2
             l == split(SubSeq(s, 1, h), re)
             r == split(SubSeq(s, h + 1, Len(s)), re)
         IN  SubSeq(l, 1, Len(l) - 1)
                 \o (IF isSeparator(re, Head(SubSeq(s, h, h))) /\ isSeparator(re, Head(SubSeq(s, h + 1, h + 1)))
                     THEN <<>>
                     ELSE << l[Len(l)] \o r[1] >>)
                 \o Tail(r)
    ELSE splitRuns(s, re, "", FALSE)

\* s.split(c) for a one-character string c: every occurrence separates.
RECURSIVE splitChar(_, _, _)
splitChar(s, c, cur) ==
    IF s = "" THEN << cur >>
    ELSE IF Head(s) = c THEN << cur >> \o splitChar(Tail(s), c, "")
    ELSE splitChar(Tail(s), c, cur \o Head(s))

(***************************************************************************)
(* Sentiment/topic analyzer.                                               *)
(***************************************************************************)
positiveWords ==
    {"love", "great", "awesome", "amazing", "excellent", "wonderful", "fantastic",
     "good", "nice", "happy", "excited", "thrilled", "perfect", "brilliant"}
negativeWords ==
    {"hate", "bad", "terrible", "awful", "horrible", "sad", "angry", "disappointed",
     "frustrated", "annoyed", "worried", "concerned"}
stopWords ==
    {"this", "that", "with", "have", "will", "from", "they", "been", "were", "said",
     "each", "which", "their", "time", "would", "there", "could", "other"}

CountIn(words, lexicon) == Cardinality({i \in 1..Len(words) : words[i] \in lexicon})

\* A faulty analyzer: the case of the text is kept, and a tie is positive.
analyzeSentiment_Ties(text) ==
    IF text = "" THEN "neutral"
    ELSE LET words == split(text, "W+")
         IN  IF CountIn(words, positiveWords) >= CountIn(words, negativeWords)
             THEN "positive" ELSE "negative"

\* analyzeSentiment(text)
analyzeSentiment(text) ==
    IF text = "" THEN "neutral"
    ELSE LET words == split(toLowerCase(text), "W+")
             positiveCount == CountIn(words, positiveWords)
             negativeCount == CountIn(words, negativeWords)
         IN  IF positiveCount > negativeCount THEN "positive"
             ELSE IF negativeCount > positiveCount THEN "negative"
             ELSE "neutral"

\* The value of a digit.
RECURSIVE digitValue(_, _)
digitValue(c, ds) == IF Head(ds) = c THEN 0 ELSE 1 + digitValue(c, Tail(ds))

\* Whether digit string a is below digit string b of the same length.
RECURSIVE digitsLess(_, _)
digitsLess(a, b) ==
    IF a = "" THEN FALSE
    ELSE IF Head(a) = Head(b) THEN digitsLess(Tail(a), Tail(b))
    ELSE digitValue(Head(a), Digits) < digitValue(Head(b), Digits)

\* Whether canonical numeric string a is numerically below b.
numericLess(a, b) == Len(a) < Len(b) \/ (Len(a) = Len(b) /\ digitsLess(a, b))

\* Whether property key w is an array index: a canonical numeric string below
\* 2^32 - 1.  Object.entries lists such keys first, in ascending numeric order.
IsArrayIndex(w) ==
    /\ w # ""
    /\ \A i \in 1..Len(w) : SubSeq(w, i, i) \in CharsOf(Digits)
    /\ (Len(w) > 1 => Head(w) # "0")
    /\ numericLess(w, "4294967295")

\* The distinct words in order of first occurrence.
RECURSIVE firstSeen(_, _)
firstSeen(words, acc) ==
    IF words = <<>> THEN acc
    ELSE IF Head(words) \in Range(acc) THEN firstSeen(Tail(words), acc)
    ELSE firstSeen(Tail(words), Append(acc, Head(words)))

\* Insert key k into ks, sorted by ascending numeric value.
RECURSIVE insertNumeric(_, _)
insertNumeric(k, ks) ==
    IF ks = <<>> THEN << k >>
    ELSE IF numericLess(k, Head(ks)) THEN << k >> \o ks
    ELSE << Head(ks) >> \o insertNumeric(k, Tail(ks))

RECURSIVE sortNumeric(_, _)
sortNumeric(ks, acc) ==
    IF ks = <<>> THEN acc ELSE sortNumeric(Tail(ks), insertNumeric(Head(ks), acc))

\* The keys of wordCount in the order Object.entries lists them.
objectKeys(words) ==
    LET seen == firstSeen(words, <<>>)
    IN  sortNumeric(SelectSeq(seen, IsArrayIndex), <<>>)
            \o SelectSeq(seen, LAMBDA w : ~IsArrayIndex(w))

\* entries.sort(([, a], [, b]) => b - a): a stable sort by descending count.
RECURSIVE insertByCount(_, _, _)
insertByCount(k, ks, count) ==
    IF ks = <<>> THEN << k >>
    ELSE IF count[k] > count[Head(ks)] THEN << k >> \o ks
    ELSE << Head(ks) >> \o insertByCount(k, Tail(ks), count)

RECURSIVE sortByCount(_, _, _)
sortByCount(ks, acc, count) ==
    IF ks = <<>> THEN acc
    ELSE sortByCount(Tail(ks), insertByCount(Head(ks), acc, count), count)

\* A faulty extractor: words of 3 characters are kept.
extractTopics_Short(text) ==
    IF text = "" THEN <<>>
    ELSE LET pieces == split(toLowerCase(text), "s+")
             topicWords == SelectSeq(pieces, LAMBDA w : Len(w) > 2 /\ w \notin stopWords)
             wordCount == [w \in Range(topicWords) |->
                              Cardinality({i \in 1..Len(topicWords) : topicWords[i] = w})]
             sorted == sortByCount(objectKeys(topicWords), <<>>, wordCount)
         IN  SubSeq(sorted, 1, Min(5, Len(sorted)))

\* extractTopics(text)
extractTopics(text) ==
    IF text = "" THEN <<>>
    ELSE LET stripped == SelectSeq(toLowerCase(text), LAMBDA c : IsWordChar(c) \/ IsSpace(c))
             pieces == split(stripped, "s+")
             topicWords == SelectSeq(pieces, LAMBDA w : Len(w) > 3 /\ w \notin stopWords)
             wordCount == [w \in Range(topicWords) |->
                              Cardinality({i \in 1..Len(topicWords) : topicWords[i] = w})]
             sorted == sortByCount(objectKeys(topicWords), <<>>, wordCount)
         IN  SubSeq(sorted, 1, Min(5, Len(sorted)))

(***************************************************************************)
(* Context extraction.  A page is a record of the elements the extractor    *)
(* queries; failAt names the one DOM-reading step that throws, if any.      *)
(***************************************************************************)
Sentinel == "Unable to extract post content"
NoContent == "No post content available"

\* getYouTubeTitle()
getYouTubeTitle(pg) == IF pg.title.found THEN trim(pg.title.text) ELSE ""

\* getYouTubeDescription()
getYouTubeDescription(pg) ==
    IF pg.description.found THEN substring0(trim(pg.description.text), 1000) ELSE ""

\* getYouTubeChannelInfo(): the object { name, subscribers }
getYouTubeChannelInfo(pg) ==
    [isObj |-> TRUE,
     name |-> IF pg.channelName.found THEN trim(pg.channelName.text) ELSE "",
     str |-> ""]

\* The comment loop of getYouTubeComments / getLinkedInPostData: at most
\* `most` elements are looked at, one without text or author is skipped, the
\* text is cut to `cut` characters.
RECURSIVE readComments(_, _, _, _)
readComments(els, i, most, cut) ==
    IF i > Min(most, Len(els)) THEN <<>>
    ELSE (IF els[i].text.found /\ els[i].author.found
          THEN << [author |-> trim(els[i].author.text),
                   text |-> substring0(trim(els[i].text.text), cut)] >>
          ELSE <<>>)
         \o readComments(els, i + 1, most, cut)

\* getYouTubeComments()
getYouTubeComments(pg) == readComments(pg.threads, 1, 5, 200)

\* The while loop of findLinkedInPost from the element `hop` parentElement
\* steps above the comment box, after `attempts` iterations.  pg.hops is the
\* number of steps from the box to the nearest .feed-shared-update-v2, -1 if
\* none; pg.depth the number of ancestor elements of the box.  inspected
\* counts the elements whose classList was read.
RECURSIVE walkUp(_, _, _)
walkUp(pg, hop, attempts) ==
    IF hop > pg.depth \/ ~(attempts < 10) THEN [found |-> FALSE, inspected |-> attempts]
    ELSE IF hop = pg.hops THEN [found |-> TRUE, inspected |-> attempts + 1]
    ELSE walkUp(pg, hop + 1, attempts + 1)

\* findLinkedInPost(commentBox): whether a post container is returned.
findLinkedInPost(pg) == walkUp(pg, 0, 0).found

\* getLinkedInPostData(commentBox)
getLinkedInPostData(pg) ==
    IF findLinkedInPost(pg)
    THEN [content |-> IF pg.postText.found THEN trim(pg.postText.text) ELSE "",
          author |-> IF pg.postAuthor.found THEN trim(pg.postAuthor.text) ELSE "",
          comments |-> readComments(pg.postComments, 1, 3, 150)]
    ELSE [content |-> "", author |-> "", comments |-> <<>>]

\* The steps of the try block that read the DOM, in order.
domSteps(p) ==
    IF p = "YouTube"
    THEN << "getYouTubeTitle", "getYouTubeDescription", "getYouTubeChannelInfo",
            "getYouTubeComments", "getYouTubeStats" >>
    ELSE << "getLinkedInPostData" >>

\* One statement of the try block applied to the context.
stepEffect(step, pg, ctx) ==
    CASE step = "getYouTubeTitle" -> [ctx EXCEPT !.postTitle = getYouTubeTitle(pg)]
      [] step = "getYouTubeDescription" -> [ctx EXCEPT !.postContent = getYouTubeDescription(pg)]
      [] step = "getYouTubeChannelInfo" -> [ctx EXCEPT !.authorInfo = getYouTubeChannelInfo(pg)]
      [] step = "getYouTubeComments" -> [ctx EXCEPT !.existingComments = getYouTubeComments(pg)]
      [] step = "getYouTubeStats" -> ctx
      [] step = "getLinkedInPostData" ->
            LET postData == getLinkedInPostData(pg)
            IN  [ctx EXCEPT !.postContent = postData.content,
                            !.authorInfo = [isObj |-> FALSE, name |-> "", str |-> postData.author],
                            !.existingComments = postData.comments]

\* The try block: the DOM steps in order up to the one that throws, then the
\* sentiment and the topics.
RECURSIVE tryBlock(_, _, _, _)
tryBlock(steps, pg, fail, ctx) ==
    IF steps = <<>>
    THEN [threw |-> FALSE,
          ctx |-> [ctx EXCEPT !.sentiment = analyzeSentiment(ctx.postContent),
                              !.topics = [defined |-> TRUE,
                                          list |-> extractTopics(ctx.postContent)]]]
    ELSE IF Head(steps) = fail THEN [threw |-> TRUE, ctx |-> ctx]
    ELSE tryBlock(Tail(steps), pg, fail, stepEffect(Head(steps), pg, ctx))

catchBlock_Rethrow(r) == r

\* catch (error) { context.postContent = 'Unable to extract post content' }
catchBlock(r) ==
    IF r.threw
    THEN [threw |-> FALSE, ctx |-> [r.ctx EXCEPT !.postContent = Sentinel]]
    ELSE r

\* extractComprehensiveContext(commentBox)
extractComprehensiveContext(p, pg, fail) ==
    catchBlock(tryBlock(domSteps(p), pg, fail, newContext(p)))

\* content.js: the steps of extractPostContent that read the DOM.
simpleSteps(p) == IF p = "YouTube" THEN << "title", "description" >> ELSE << "post" >>

\* content.js: extractPostContent(commentBox)
extractPostContent(p, pg, fail) ==
    IF fail \in Range(simpleSteps(p)) THEN [threw |-> FALSE, text |-> Sentinel]
    ELSE LET postContent ==
                 IF p = "YouTube"
                 THEN (IF pg.title.found
                       THEN "Title: " \o trim(pg.title.text) \o "\n" ELSE "")
                      \o (IF pg.description.found
                          THEN "Description: " \o substring0(trim(pg.description.text), 500)
                          ELSE "")
                 ELSE IF findLinkedInPost(pg) /\ pg.postText.found
                      THEN substring0(trim(pg.postText.text), 1000)
                      ELSE ""
         IN  [threw |-> FALSE, text |-> IF postContent = "" THEN NoContent ELSE postContent]

(***************************************************************************)
(* Reply templates and the prompt.                                         *)
(***************************************************************************)
Tones == {"supportive", "analytical", "conversational", "question", "humorous", "professional"}

\* Stands for an emoji of the source text.
Emoji == "*"

\* array.join(sep)
RECURSIVE join(_, _)
join(list, sep) ==
    IF list = <<>> THEN ""
    ELSE IF Len(list) = 1 THEN list[1]
    ELSE list[1] \o sep \o join(Tail(list), sep)

\* t.charAt(0).toUpperCase() + t.slice(1)
capitalize(t) == IF t = "" THEN "" ELSE upperChar(Head(t), UpperCase, LowerCase) \o Tail(t)

\* The three template strings of each tone for a context whose topics is an
\* array.  list[i] of an index past the end is undefined: it concatenates as
\* "undefined" and is falsy on the left of ||.
templates(ctx) ==
    LET topics == ctx.topics.list
        hasTopics == Len(topics) > 0
        topic0 == IF Len(topics) >= 1 THEN topics[1] ELSE "undefined"
        topic0Or(d) == IF Len(topics) >= 1 THEN topics[1] ELSE d
        topic1Or(d) == IF Len(topics) >= 2 THEN topics[2] ELSE d
        positive == ctx.sentiment = "positive"
        \* context.authorInfo?.name: a string authorInfo has no name
        hasName == ctx.authorInfo.isObj /\ ctx.authorInfo.name # ""
        firstName == splitChar(ctx.authorInfo.name, " ", "")[1]
    IN  [supportive |-> <<
            "Really appreciate you sharing this"
                \o (IF ctx.postTitle # "" THEN " about " \o topic0 ELSE "") \o "! "
                \o (IF positive THEN "Your enthusiasm is contagious! " \o Emoji
                    ELSE "Thanks for the thoughtful perspective."),
            "This resonates with me so much"
                \o (IF hasTopics THEN ", especially the point about " \o topic0 ELSE "")
                \o ". Keep up the great work! " \o Emoji,
            "Love seeing content like this"
                \o (IF hasName THEN " from " \o firstName ELSE "") \o ". "
                \o (IF positive THEN "Your positivity is inspiring!"
                    ELSE "Really valuable insights here.") >>,
         analytical |-> <<
            "Interesting perspective" \o (IF hasTopics THEN " on " \o topic0 ELSE "")
                \o ". Have you considered how this might impact "
                \o topic1Or("the broader industry") \o "?",
            "The point about " \o topic0Or("this topic")
                \o " is particularly compelling. What led you to this conclusion?",
            "This aligns with some recent trends I've noticed"
                \o (IF hasTopics THEN " in " \o topic0 ELSE "")
                \o ". Would love to hear more about your experience with this." >>,
         conversational |-> <<
            "Totally get what you mean" \o (IF hasTopics THEN " about " \o topic0 ELSE "")
                \o "! "
                \o (IF positive THEN "Had a similar experience recently " \o Emoji
                    ELSE "Been thinking about this too lately."),
            "This is so relatable" \o (IF hasName THEN " " \o firstName ELSE "") \o "! "
                \o (IF hasTopics THEN capitalize(topic0) \o " is such a hot topic right now."
                    ELSE "Thanks for sharing your thoughts."),
            "Love this take" \o (IF hasTopics THEN " on " \o topic0 ELSE "")
                \o "! Mind if I ask what got you interested in this area?" >>,
         question |-> <<
            "Really curious about your thoughts on " \o topic0Or("this topic")
                \o ". What's been your experience with it?",
            "This is fascinating! How did you first get involved with "
                \o topic0Or("this area") \o "?",
            "Great insights" \o (IF hasName THEN " " \o firstName ELSE "")
                \o "! What would you say is the biggest challenge in "
                \o topic0Or("this field") \o " right now?" >>,
         humorous |-> <<
            (IF positive THEN "Your enthusiasm is infectious! " \o Emoji
             ELSE "Well, that escalated quickly! " \o Emoji) \o " "
                \o (IF hasTopics THEN "The " \o topic0 \o " struggle is real!"
                    ELSE "Can totally relate to this!"),
            "Plot twist: I was just thinking about this exact thing! "
                \o (IF hasTopics THEN "Great minds think about " \o topic0 \o " apparently " \o Emoji
                    ELSE "Universe works in mysterious ways! " \o Emoji),
            "Not me reading this and nodding like I'm in a meeting " \o Emoji \o " "
                \o (IF hasTopics THEN capitalize(topic0) \o " hits different!"
                    ELSE "So accurate it hurts!") >>,
         professional |-> <<
            "Thank you for sharing these insights" \o (IF hasTopics THEN " on " \o topic0 ELSE "")
                \o ". This perspective adds valuable context to the current industry discussion.",
            "Excellent analysis" \o (IF hasName THEN ", " \o firstName ELSE "")
                \o ". The point about " \o topic0Or("this approach")
                \o " particularly resonates with current best practices.",
            "This contributes meaningfully to the conversation around "
                \o topic0Or("this topic")
                \o ". Would be interested to connect and discuss further." >>]

\* generateFallbackReplies(context, tone).  The object literal evaluates the
\* templates of every tone before one is picked, and the second of them reads
\* context.topics.length: a context without the topics property makes the
\* call throw a TypeError, whatever the tone.
generateFallbackReplies(ctx, t) ==
    IF ~ctx.topics.defined THEN [threw |-> TRUE, replies |-> <<>>]
    ELSE [threw |-> FALSE,
          replies |-> IF t \in Tones THEN templates(ctx)[t] ELSE templates(ctx).conversational]

\* The tone guidance of buildContextPrompt's switch.
toneGuidance(t) ==
    CASE t = "supportive" -> "- Show encouragement and positivity\n- Acknowledge the content meaningfully\n- Add personal touch without being fake"
      [] t = "analytical" -> "- Provide thoughtful insights\n- Ask intelligent questions\n- Reference specific points from the content"
      [] t = "conversational" -> "- Sound natural and friendly\n- Use casual language\n- Share relatable thoughts or experiences"
      [] t = "question" -> "- Ask engaging, specific questions\n- Show genuine curiosity\n- Reference the content directly"
      [] t = "humorous" -> "- Add appropriate humor or wit\n- Keep it light and fun\n- Avoid offensive content"
      [] t = "professional" -> "- Maintain professional tone\n- Offer constructive insights\n- Network appropriately"
      [] OTHER -> ""

\* The "Top comments" lines: existingComments.slice(0, 2), numbered from 1.
RECURSIVE commentLines(_, _)
commentLines(comments, i) ==
    IF i > Min(2, Len(comments)) THEN ""
    ELSE (IF i = 1 THEN "1" ELSE "2") \o ". \"" \o comments[i].text \o "\"\n"
         \o commentLines(comments, i + 1)

\* buildContextPrompt(context, tone): throws a TypeError at
\* context.topics.length when the context has no topics property.
buildContextPrompt(ctx, t) ==
    IF ~ctx.topics.defined THEN [threw |-> TRUE, prompt |-> ""]
    ELSE [threw |-> FALSE,
          prompt |->
            "Generate 3 " \o t \o " replies for a " \o ctx.platform \o " post.\n\n"
            \o (IF ctx.postTitle # "" THEN "Title: \"" \o ctx.postTitle \o "\"\n" ELSE "")
            \o (IF ctx.postContent # ""
                THEN "Content: \"" \o substring0(ctx.postContent, 500) \o "\"\n" ELSE "")
            \o (IF ctx.authorInfo.isObj /\ ctx.authorInfo.name # ""
                THEN "Author: " \o ctx.authorInfo.name \o "\n" ELSE "")
            \o (IF Len(ctx.topics.list) > 0
                THEN "Key topics: " \o join(ctx.topics.list, ", ") \o "\n" ELSE "")
            \o (IF ctx.sentiment # "neutral"
                THEN "Post sentiment: " \o ctx.sentiment \o "\n" ELSE "")
            \o (IF Len(ctx.existingComments) > 0
                THEN "\nTop comments:\n" \o commentLines(ctx.existingComments, 1) ELSE "")
            \o "\nGenerate 3 " \o t \o " replies that:\n"
            \o toneGuidance(t)
            \o "\n\nKeep each reply under 150 characters and make them sound human and authentic. Return only the 3 replies, one per line."]

(***************************************************************************)
(* Extraction and template replies on every small page, with a DOM step    *)
(* that throws.                                                            *)
(***************************************************************************)
TitleChoices == {Absent, Text("  Great Rust Tutorial \n")}
\* s repeated n times.
RECURSIVE Repeat(_, _)
Repeat(s, n) ==
    IF n = 0 THEN ""
    ELSE IF n = 1 THEN s
    ELSE Repeat(s, n \div 2) \o Repeat(s, n - n \div 2)

\* A text of 1016 characters when trimmed, whose only sentiment word lies
\* after character 1000.
LongPost == "  " \o Repeat("internationalization ", 48) \o "is great \n"

DescriptionChoices ==
    {Absent, Text(""), Text(" I love this amazing compiler. Compiler talk is great! "),
     Text("bad day"), Text(LongPost)}
ChannelChoices == {Absent, Text("Jane Doe")}
ThreadChoices ==
    {<<>>,
     << [text |-> Text("nice one"), author |-> Absent],
        [text |-> Text(" so true "), author |-> Text("Al")] >>}

Pages(p) ==
    IF p = "YouTube"
    THEN {[EmptyPage EXCEPT !.title = ti, !.description = d, !.channelName = c, !.threads = th] :
            ti \in TitleChoices, d \in DescriptionChoices, c \in ChannelChoices,
            th \in ThreadChoices}
    ELSE {[EmptyPage EXCEPT !.hops = h[1], !.depth = h[2], !.postText = d, !.postAuthor = c,
                            !.postComments = th] :
            h \in {<<-1, 3>>, <<-1, 12>>, <<2, 12>>, <<9, 12>>, <<10, 12>>},
            d \in DescriptionChoices, c \in ChannelChoices, th \in ThreadChoices}

FailChoices(p) == {"none"} \cup Range(domSteps(p)) \cup Range(simpleSteps(p))

ExtractInit ==
    /\ platform \in Platforms
    /\ variant \in Variants
    /\ loaded = FALSE
    /\ observing = FALSE
    /\ inDoc = [b \in Boxes |-> b = "b1"]
    /\ layout = [b \in Boxes |-> IF b = "b1" THEN Visible ELSE NoLayout]
    /\ matches = [b \in Boxes |-> IF b = "b1" THEN {1} ELSE {}]
    /\ throwing = {}
    /\ injectThrows = {}
    /\ processed = [b \in Boxes |-> b = "b1"]
    /\ buttons = [b \in Boxes |-> IF b = "b1" THEN 1 ELSE 0]
    /\ injectCalls = [b \in Boxes |-> IF b = "b1" THEN 1 ELSE 0]
    /\ url = "/watch?v=1"
    /\ lastUrl = "/watch?v=1"
    /\ pollTimer = <<>>
    /\ debounce = <<>>
    /\ settle = <<>>
    /\ burst = 0
    /\ quietScans = 0
    /\ found = <<>>
    /\ cleaned = FALSE
    /\ pc = "ready"
    /\ page \in Pages(platform)
    /\ failAt \in FailChoices(platform)
    /\ tone \in Tones \cup {"sarcastic"}
    /\ ctxOut = [threw |-> FALSE, ctx |-> newContext(platform)]
    /\ postOut = [threw |-> FALSE, text |-> ""]
    /\ fbOut = [threw |-> FALSE, replies |-> <<>>]
    /\ InsertIdle
    /\ PanelIdle
    /\ TextIdle
    /\ CallIdle

\* const context = await this.extractComprehensiveContext(commentBox);
\* content.js: const postContent = this.extractPostContent(commentBox);
CallExtract ==
    /\ pc = "ready"
    /\ IF variant = "part_000"
       THEN /\ ctxOut' = extractComprehensiveContext(platform, page, failAt)
            /\ UNCHANGED postOut
       ELSE /\ postOut' = extractPostContent(platform, page, failAt)
            /\ UNCHANGED ctxOut
    /\ pc' = "extracted"
    /\ UNCHANGED <<monVars, page, failAt, tone, fbOut>>

\* const fallbackReplies = this.generateFallbackReplies(context, tone);
CallFallback ==
    /\ pc = "extracted"
    /\ variant = "part_000"
    /\ fbOut' = generateFallbackReplies(ctxOut.ctx, tone)
    /\ pc' = "done"
    /\ UNCHANGED <<monVars, page, failAt, tone, ctxOut, postOut>>

ExtractNext ==
    \/ CallExtract /\ UNCHANGED <<insVars, panelVars, txtVars, callVars>>
    \/ CallFallback /\ UNCHANGED <<insVars, panelVars, txtVars, callVars>>

SpecExtract == ExtractInit /\ [][ExtractNext]_vars

(***************************************************************************)
(* The analyzer on every short text over a small vocabulary.               *)
(***************************************************************************)
MaxWords == 3

\* The words the texts are made of, each with the tokens it holds: the
\* maximal runs of letters, digits and _, in lower case.
Vocabulary ==
    [w \in {"love", "Great", "bad,", "hate!", "lovely", "love-hate", "compiler", "2024"} |->
        CASE w = "love" -> << "love" >>
          [] w = "Great" -> << "great" >>
          [] w = "bad," -> << "bad" >>
          [] w = "hate!" -> << "hate" >>
          [] w = "lovely" -> << "lovely" >>
          [] w = "love-hate" -> << "love", "hate" >>
          [] w = "compiler" -> << "compiler" >>
          [] w = "2024" -> << "2024" >>]

FoxWords == << "the", "quick", "quick", "brown", "brown", "brown", "fox" >>

\* A text with six words that qualify as topics.
SixWords == << "lovely", "compiler", "Great", "hate!", "love", "love-hate", "compiler" >>

WordLists ==
    UNION {[1..n -> DOMAIN Vocabulary] : n \in 0..MaxWords} \cup {FoxWords, SixWords}

TextInit ==
    /\ platform = "YouTube"
    /\ variant = "part_000"
    /\ loaded = FALSE
    /\ observing = FALSE
    /\ inDoc = [b \in Boxes |-> b = "b1"]
    /\ layout = [b \in Boxes |-> IF b = "b1" THEN Visible ELSE NoLayout]
    /\ matches = [b \in Boxes |-> IF b = "b1" THEN {1} ELSE {}]
    /\ throwing = {}
    /\ injectThrows = {}
    /\ processed = [b \in Boxes |-> b = "b1"]
    /\ buttons = [b \in Boxes |-> IF b = "b1" THEN 1 ELSE 0]
    /\ injectCalls = [b \in Boxes |-> IF b = "b1" THEN 1 ELSE 0]
    /\ url = "/watch?v=1"
    /\ lastUrl = "/watch?v=1"
    /\ pollTimer = <<>>
    /\ debounce = <<>>
    /\ settle = <<>>
    /\ burst = 0
    /\ quietScans = 0
    /\ found = <<>>
    /\ cleaned = FALSE
    /\ pc = "ready"
    /\ ExtractIdle
    /\ InsertIdle
    /\ PanelIdle
    /\ wordsIn \in WordLists
    /\ textIn = join(wordsIn, " ")
    /\ sentOut = "neutral"
    /\ topicsOut = <<>>
    /\ CallIdle

\* context.sentiment = this.analyzeSentiment(context.postContent);
CallSentiment ==
    /\ pc = "ready"
    /\ sentOut' = analyzeSentiment(textIn)
    /\ pc' = "sentiment"
    /\ UNCHANGED <<monVars, extVars, insVars, panelVars, wordsIn, textIn, topicsOut, callVars>>

\* context.topics = this.extractTopics(context.postContent);
CallTopics ==
    /\ pc = "sentiment"
    /\ topicsOut' = extractTopics(textIn)
    /\ pc' = "done"
    /\ UNCHANGED <<monVars, extVars, insVars, panelVars, wordsIn, textIn, sentOut, callVars>>

TextNext == CallSentiment \/ CallTopics

SpecText == TextInit /\ [][TextNext]_vars

(***************************************************************************)
(* Reply insertion.                                                        *)
(***************************************************************************)
\* escapeHtml(text): div.textContent = text; return div.innerHTML.  The HTML
\* serialisation of a text node escapes &, < and >, character by character.
RECURSIVE escapeHtml(_)
escapeHtml(text) ==
    LET n == Len(text)
    IN  IF n = 0 THEN ""
        ELSE IF n = 1
        THEN (CASE text = "&" -> "&amp;"
                [] text = "<" -> "&lt;"
                [] text = ">" -> "&gt;"
                [] OTHER -> text)
        ELSE escapeHtml(SubSeq(text, 1, n \div 2)) \o escapeHtml(SubSeq(text, n \div 2 + 1, n))

\* element.textContent = text.  The children of a textarea are its default
\* value: its value follows them while its dirty value flag is false, and
\* the selection is kept within the value.
setTextContent(kind, st, text) ==
    LET written == [st EXCEPT !.html = escapeHtml(text), !.wrote = "textContent"]
    IN  IF kind.tagName = "TEXTAREA" /\ ~st.dirty
        THEN [written EXCEPT !.value = text,
                             !.selStart = Min(st.selStart, Len(text)),
                             !.selEnd = Min(st.selEnd, Len(text))]
        ELSE written

\* element.value = text on a textarea: the dirty value flag is set, and the
\* text entry cursor moves to the end if the value has changed.
setValue(st, text) ==
    [st EXCEPT !.value = text, !.wrote = "value", !.dirty = TRUE,
               !.selStart = IF text # st.value THEN Len(text) ELSE @,
               !.selEnd = IF text # st.value THEN Len(text) ELSE @]

\* element.innerHTML = markup
setInnerHTML(st, markup) == [st EXCEPT !.html = markup, !.wrote = "innerHTML"]

\* element.dispatchEvent(new Event(name, { bubbles: true })), in order; each
\* event is recorded with the property of the element assigned before it.
dispatch(st, names) ==
    [st EXCEPT !.events = st.events \o [i \in 1..Len(names) |->
                                           [name |-> names[i], after |-> st.wrote]]]

\* setCursorToEnd(element): the document's selection is collapsed after the
\* element's last child.  Only when these calls throw does the catch run:
\* element.setSelectionRange(value.length, value.length) if the element has
\* that method.
setCursorToEnd(kind, st, throws) ==
    IF ~throws THEN [st EXCEPT !.caretAtEnd = TRUE]
    ELSE IF kind.tagName = "TEXTAREA"
    THEN [st EXCEPT !.selStart = Len(st.value), !.selEnd = Len(st.value),
                    !.selRangeSet = TRUE]
    ELSE st

\* commentBox.innerHTML = `<p>${replyText}</p>`
quillWrite(st, replyText) == setInnerHTML(st, "<p>" \o replyText \o "</p>")

\* insertReply(replyText, commentBox) of variant v on platform p; throws:
\* the Range/Selection calls of setCursorToEnd throw.
insertReply(v, p, kind, st, replyText, throws) ==
    LET focusedBox == [st EXCEPT !.focused = TRUE]
        more == v = "part_000"
        written ==
            IF p = "YouTube"
            THEN IF kind.contentEditable
                 THEN dispatch(setTextContent(kind, focusedBox, replyText),
                               IF more THEN << "input", "change" >> ELSE << "input" >>)
                 ELSE IF kind.tagName = "TEXTAREA"
                 THEN dispatch(setValue(focusedBox, replyText),
                               IF more THEN << "input", "change" >> ELSE << "input" >>)
                 ELSE focusedBox
            ELSE IF kind.qlEditor
                 THEN dispatch(quillWrite(focusedBox, replyText),
                               IF more THEN << "input", "blur" >> ELSE << "input" >>)
                 ELSE dispatch(setTextContent(kind, focusedBox, replyText), << "input" >>)
    IN  setCursorToEnd(kind, written, throws)

(***************************************************************************)
(* insertReply on every kind of comment box, with replies that contain     *)
(* markup.                                                                 *)
(***************************************************************************)
ReplyTexts ==
    {"", "Nice post!", "a < b & c > d", "<script>alert(1)</script>",
     "<img src=x onerror=alert(1)>", "Tom & Jerry"}

\* What the comment box holds before the insertion: a textarea may hold typed
\* text with the caret at its start or its end.
BoxContents(kind) ==
    IF kind.tagName = "TEXTAREA"
    THEN {EmptyBox} \cup
         {[EmptyBox EXCEPT !.value = old, !.dirty = TRUE, !.selStart = c, !.selEnd = c] :
            old \in {"Nice post!", "draft"}, c \in {0, 5}}
    ELSE {EmptyBox}

InsertInit ==
    /\ platform \in Platforms
    /\ variant \in Variants
    /\ loaded = FALSE
    /\ observing = FALSE
    /\ inDoc = [b \in Boxes |-> b = "b1"]
    /\ layout = [b \in Boxes |-> IF b = "b1" THEN Visible ELSE NoLayout]
    /\ matches = [b \in Boxes |-> IF b = "b1" THEN {1} ELSE {}]
    /\ throwing = {}
    /\ injectThrows = {}
    /\ processed = [b \in Boxes |-> b = "b1"]
    /\ buttons = [b \in Boxes |-> IF b = "b1" THEN 1 ELSE 0]
    /\ injectCalls = [b \in Boxes |-> IF b = "b1" THEN 1 ELSE 0]
    /\ url = "/watch?v=1"
    /\ lastUrl = "/watch?v=1"
    /\ pollTimer = <<>>
    /\ debounce = <<>>
    /\ settle = <<>>
    /\ burst = 0
    /\ quietScans = 0
    /\ found = <<>>
    /\ cleaned = FALSE
    /\ pc = "ready"
    /\ ExtractIdle
    /\ reply \in ReplyTexts
    /\ \E k \in BoxKinds : boxKind = [b \in Boxes |-> k]
    /\ \E old \in BoxContents(boxKind["b1"]) :
          boxState = [b \in Boxes |-> IF b = "b1" THEN old ELSE EmptyBox]
    /\ rangeThrows \in BOOLEAN
    /\ PanelIdle
    /\ TextIdle
    /\ CallIdle

\* this.insertReply(replies[index], commentBox) on box b1
CallInsert ==
    /\ pc = "ready"
    /\ boxState' = [boxState EXCEPT
                      !["b1"] = insertReply(variant, platform, boxKind["b1"], @, reply, rangeThrows)]
    /\ pc' = "inserted"
    /\ UNCHANGED <<monVars, extVars, reply, boxKind, rangeThrows>>

InsertNext == CallInsert /\ UNCHANGED <<panelVars, txtVars, callVars>>

SpecInsert == InsertInit /\ [][InsertNext]_vars

(***************************************************************************)
(* Part 3.  The options panel and the generation requests.  Every action   *)
(* is one task of the event loop: a user's click, a timer, a response.     *)
(* The continuation of showReplyOptions after its await is a microtask: it *)
(* runs when the click handler has returned, before any other task.        *)
(***************************************************************************)
MaxPanels == 2
MaxRequests == 2

\* A panel as createOptionsPanel builds it: the replies container hidden,
\* the loading row with its spinner, an empty list, the regenerate section
\* hidden and its button without a handler.  replaced records the panel
\* that was active when the button was clicked, 0 if none was.  list is the
\* replies array the handlers of the rendered items close over; texts[i] is
\* the text of item i's .reply-text, drafts[i] the value of its edit
\* textarea, editing[i] whether its edit area is shown.
newPanel(b, ctx, replaced) ==
    [attached |-> TRUE, box |-> b, ctx |-> ctx, replaced |-> replaced, active |-> "none",
     shown |-> FALSE, loadingShown |-> TRUE, loadingText |-> "spinner",
     list |-> <<>>, texts |-> <<>>, drafts |-> <<>>, editing |-> <<>>,
     regen |-> FALSE, regenTone |-> "none"]

\* A response to one fetch: the promise rejects (network error, abort), the
\* status is not 2xx, the body is not JSON, or the body is JSON in which the
\* field the API's format keeps the generated text in is absent or a text.
Rejected == [kind |-> "reject", hasText |-> FALSE, text |-> ""]
HttpError == [kind |-> "status", hasText |-> FALSE, text |-> ""]
BadJson == [kind |-> "badjson", hasText |-> FALSE, text |-> ""]
JsonWithout == [kind |-> "json", hasText |-> FALSE, text |-> ""]
JsonWith(t) == [kind |-> "json", hasText |-> TRUE, text |-> t]

\* callAIAPI(apiConfig, prompt) when the response is o.  With fewer than 3
\* non-blank lines the padding loop reads the variable `tone`, which the
\* function does not have: a ReferenceError, rethrown by the catch.
callAIAPI(o) ==
    IF o.kind # "json" THEN [threw |-> TRUE, replies |-> <<>>]
    ELSE LET content == IF o.hasText THEN o.text ELSE ""
             lines == SelectSeq(splitChar(content, "\n", ""), LAMBDA l : trim(l) # "")
         IN  IF Len(lines) < 3 THEN [threw |-> TRUE, replies |-> <<>>]
             ELSE [threw |-> FALSE, replies |-> SubSeq(lines, 1, 3)]

(***************************************************************************)
(* One callAIAPI attempt, step by step, against an endpoint that may never *)
(* send its headers or never finish its body.                              *)
(***************************************************************************)
\* setTimeout(() => controller.abort(), 10000)
AbortDelay == 10000

\* What the endpoint does with the request: the fetch promise never settles,
\* rejects, resolves with a status that is not 2xx, or resolves with a 2xx
\* status; and the body that follows a 2xx status.
Endpoints ==
    {[headers |-> h, body |-> Never] : h \in {"never", "reject", "status", "ok"}}
        \cup {[headers |-> "ok", body |-> b] :
                 b \in {BadJson, JsonWithout, JsonWith("One\nTwo"),
                        JsonWith("One\n \nTwo\n<b>Three</b>\nFour")}}

\* clearTimeout(timeoutId)
clearAbortTimer(a) == [a EXCEPT !.armed = FALSE, !.left = 0]

\* catch (error) { clearTimeout(timeoutId); throw error; }
callFails(a) == [clearAbortTimer(a) EXCEPT !.phase = "done", !.res = "failed"]

\* callAIAPI up to its first await: the timer is set and the request sent to
\* an endpoint that will do e.
StartCall(e) ==
    /\ attempt.phase = "idle"
    /\ attempt' = [attempt EXCEPT !.phase = "fetching", !.armed = TRUE,
                                  !.left = Ticks(AbortDelay),
                                  !.headers = e.headers, !.body = e.body]

\* 500 ms pass while the abort timer is pending.
CallTick ==
    /\ attempt.phase \in {"fetching", "reading"}
    /\ attempt.armed /\ attempt.left > 0
    /\ attempt' = [attempt EXCEPT !.left = @ - 1]

\* The timer fires: controller.abort().  The pending fetch, or the pending
\* read of the body, rejects, and the catch rethrows.
AbortFire ==
    /\ attempt.phase \in {"fetching", "reading"}
    /\ attempt.armed /\ attempt.left = 0
    /\ attempt' = [callFails(attempt) EXCEPT !.aborted = TRUE]

\* The fetch promise rejects (network error).
FetchRejected ==
    /\ attempt.phase = "fetching"
    /\ attempt.headers = "reject"
    /\ attempt' = callFails(attempt)

\* The fetch promise resolves with the response's status and headers:
\* clearTimeout(timeoutId); if (!response.ok) throw ...; the body is awaited.
HeadersArrive ==
    /\ attempt.phase = "fetching"
    /\ attempt.headers \in {"status", "ok"}
    /\ attempt' = IF attempt.headers = "status" THEN callFails(attempt)
                  ELSE [clearAbortTimer(attempt) EXCEPT !.phase = "reading"]

\* response.json() settles: the replies are parsed and padded and returned,
\* or the catch rethrows.
BodyParsed ==
    /\ attempt.phase = "reading"
    /\ attempt.body # Never
    /\ attempt' = IF callAIAPI(attempt.body).threw THEN callFails(attempt)
                  ELSE [clearAbortTimer(attempt) EXCEPT !.phase = "done", !.res = "replies"]

\* The Edit button of item i: the edit area is shown instead of the text.
editReply(pn, i) == [pn EXCEPT !.editing[i] = TRUE]

\* The user's typing in the edit textarea of item i.
typeDraft(pn, i, text) == [pn EXCEPT !.drafts[i] = text]

saveEdit_TextOnly(pn, i) ==
    [pn EXCEPT !.texts[i] = pn.drafts[i], !.editing[i] = FALSE]

\* The Save button of item i: the textarea's value becomes the item's text
\* and replies[i], and the edit area is hidden.
saveEdit(pn, i) ==
    [pn EXCEPT !.texts[i] = pn.drafts[i], !.list[i] = pn.drafts[i], !.editing[i] = FALSE]

\* The Cancel button of item i: the edit area is hidden; the textarea keeps
\* its value.
cancelEdit(pn, i) == [pn EXCEPT !.editing[i] = FALSE]

\* The catch of generateAndShowReplies: the loading row's content becomes
\* the error message.
showError(pn) == [pn EXCEPT !.loadingText = "error"]

RichPage(p) ==
    IF p = "YouTube"
    THEN [EmptyPage EXCEPT !.title = Text("  Great Rust Tutorial \n"),
                           !.description = Text(" I love this amazing compiler. Compiler talk is great! "),
                           !.channelName = Text("Jane Doe")]
    ELSE [EmptyPage EXCEPT !.hops = 2,
                           !.postText = Text(" I love this amazing compiler. Compiler talk is great! "),
                           !.postAuthor = Text("Jane Doe")]

PanelFails(p) == {"none", Head(domSteps(p))}

PanelPages(p) == {EmptyPage, RichPage(p)}

\* The contexts, prompts and template replies of the panels' pages, computed
\* once: contextOf[p][pg][fail] is extractComprehensiveContext(commentBox)
\* on page pg of platform p when step fail throws.
contextOf ==
    [p \in Platforms |-> [pg \in PanelPages(p) |-> [fail \in PanelFails(p) |->
        extractComprehensiveContext(p, pg, fail)]]]

PanelContexts ==
    {contextOf[p][pg][fail].ctx : <<p, pg, fail>> \in
        {<<p, pg, fail>> \in Platforms \X (PanelPages("YouTube") \cup PanelPages("LinkedIn"))
                                     \X (PanelFails("YouTube") \cup PanelFails("LinkedIn")) :
            pg \in PanelPages(p) /\ fail \in PanelFails(p)}}

\* promptOf[ctx][t] is buildContextPrompt(ctx, t).
promptOf == [ctx \in PanelContexts |-> [t \in Tones |-> buildContextPrompt(ctx, t)]]

\* fallbackOf[ctx][t] is generateFallbackReplies(ctx, t).
fallbackOf == [ctx \in PanelContexts |-> [t \in Tones |-> generateFallbackReplies(ctx, t)]]

\* What the HTML parser makes of escaped text inside an element: the
\* character references of &, < and > become the characters again.  A long
\* text is parsed in two parts, cut where no character reference is cut.
RECURSIVE parseText(_)
parseText(markup) ==
    LET n == Len(markup)
        startsWith(ref) == n >= Len(ref) /\ SubSeq(markup, 1, Len(ref)) = ref
        after(k) == IF n <= k THEN "" ELSE SubSeq(markup, k + 1, n)
        half == n \div 2
        amps == {j \in (half - 3)..half : SubSeq(markup, j, j) = "&"}
        cut == IF amps = {} THEN half
               ELSE (CHOOSE j \in amps : \A k \in amps : j <= k) - 1
    IN  IF n = 0 THEN ""
        ELSE IF n > 10 THEN parseText(SubSeq(markup, 1, cut)) \o parseText(after(cut))
        ELSE IF startsWith("&amp;") THEN "&" \o parseText(after(5))
        ELSE IF startsWith("&lt;") THEN "<" \o parseText(after(4))
        ELSE IF startsWith("&gt;") THEN ">" \o parseText(after(4))
        ELSE SubSeq(markup, 1, 1) \o parseText(after(1))

\* The responses of the small model.
PanelOutcomes ==
    {Rejected, HttpError, BadJson, JsonWithout, JsonWith("One\nTwo"),
     JsonWith("One\n \nTwo\n<b>Three</b>\nFour")}

EditOutcomes ==
    {Rejected, JsonWithout, JsonWith("One\n\nTwo"), JsonWith("One\nTom & Jerry\n&lt;Three>")}

\* The reply lists displayReplies is called with, and for each the texts the
\* parser reads back from the escaped replies in the items' markup.
ReplyLists ==
    {callAIAPI(o).replies : o \in PanelOutcomes \cup EditOutcomes}
        \cup {fallbackOf[ctx][t].replies : ctx \in PanelContexts, t \in Tones}
renderedOf ==
    [replies \in ReplyLists |-> [i \in 1..Len(replies) |-> parseText(escapeHtml(replies[i]))]]

\* displayReplies(container, replies, commentBox): the container's markup is
\* replaced by one item per reply, whose .reply-text and edit textarea are
\* parsed from the escaped reply and whose edit area is hidden; the buttons
\* of item i act on replies[i].
displayReplies(pn, replies) ==
    [pn EXCEPT !.list = replies,
               !.texts = renderedOf[replies],
               !.drafts = renderedOf[replies],
               !.editing = [i \in 1..Len(replies) |-> FALSE]]

\* generateAndShowReplies(panel, context, tone, commentBox) up to its await,
\* and the catch when buildContextPrompt has thrown already; pn is panel p
\* as the click handler has changed it so far.  A request records the
\* endpoints callAIAPI was called with, those whose call failed, and whether
\* its panel was detached when it last wrote to the panel's elements.
startRequest(p, pn, t) ==
    LET loadingPanel == [pn EXCEPT !.shown = TRUE, !.loadingShown = TRUE,
                                   !.list = <<>>, !.texts = <<>>, !.drafts = <<>>,
                                   !.editing = <<>>, !.regen = FALSE]
        prompt == promptOf[pn.ctx][t]
    IN  /\ Len(requests) < MaxRequests
        /\ IF prompt.threw
           THEN /\ panels' = [panels EXCEPT ![p] = showError(loadingPanel)]
                /\ requests' = Append(requests,
                       [panel |-> p, tone |-> t, stage |-> "fallbackTimer", out |-> <<>>,
                        calls |-> <<>>, failed |-> <<>>, late |-> FALSE])
           ELSE /\ panels' = [panels EXCEPT ![p] = loadingPanel]
                /\ requests' = Append(requests,
                       [panel |-> p, tone |-> t, stage |-> "primary", out |-> <<>>,
                        calls |-> <<"primary">>, failed |-> <<>>, late |-> FALSE])

\* The button of box b is there to be clicked.
HasButton(b) == inDoc[b] /\ buttons[b] >= 1

\* The variables the panel actions leave alone.
panelRest == <<monVars, pc, extVars, reply, boxKind, rangeThrows, txtVars, callVars>>

\* A click on the floating button of box b: showReplyOptions(button, b) up to
\* its await.  extractComprehensiveContext has run by then; fail is the step
\* of it that throws on this click.
ClickButton(b, fail) ==
    /\ micro = <<>>
    /\ HasButton(b)
    /\ Len(panels) < MaxPanels
    /\ hideActiveUI(panels)
    /\ LET r == contextOf[platform][page][fail]
       IN  micro' = IF r.threw THEN micro
                    ELSE Append(micro, [box |-> b, ctx |-> r.ctx, replaced |-> activeUI])
    /\ UNCHANGED <<listenerTimers, requests, boxState, panelRest>>

\* showReplyOptions after its await: the panel is created and appended next
\* to the button, and the 100 ms timer is set.
ShowPanel ==
    /\ micro # <<>>
    /\ panels' = Append(panels, newPanel(Head(micro).box, Head(micro).ctx, Head(micro).replaced))
    /\ activeUI' = Len(panels) + 1
    /\ currentTarget' = Head(micro).box
    /\ micro' = Tail(micro)
    /\ listenerTimers' = listenerTimers + 1
    /\ UNCHANGED <<clickListeners, requests, boxState, panelRest>>

\* The 100 ms timer: document.addEventListener('click', bound handler).
AddClickListener ==
    /\ micro = <<>>
    /\ listenerTimers > 0
    /\ listenerTimers' = listenerTimers - 1
    /\ clickListeners' = clickListeners + 1
    /\ UNCHANGED <<activeUI, currentTarget, panels, micro, requests, boxState, panelRest>>

\* A click outside the panel and outside the floating buttons: every
\* registered listener runs handleClickOutside(event).
ClickOutside ==
    /\ micro = <<>>
    /\ IF clickListeners > 0
       THEN hideActiveUI(panels)
       ELSE UNCHANGED <<activeUI, currentTarget, panels, clickListeners>>
    /\ UNCHANGED <<micro, listenerTimers, requests, boxState, panelRest>>

\* A click on the close button of panel p.
ClickClose(p) ==
    /\ micro = <<>>
    /\ p \in 1..Len(panels) /\ panels[p].attached
    /\ hideActiveUI(panels)
    /\ UNCHANGED <<micro, listenerTimers, requests, boxState, panelRest>>

\* A click on the tone button t of panel p.
ClickTone(p, t) ==
    /\ micro = <<>>
    /\ p \in 1..Len(panels) /\ panels[p].attached
    /\ startRequest(p, [panels[p] EXCEPT !.active = t], t)
    /\ UNCHANGED <<activeUI, currentTarget, micro, listenerTimers, clickListeners,
                   boxState, panelRest>>

\* A click on the regenerate button of panel p, once a request has given it
\* its handler.
ClickRegenerate(p) ==
    /\ micro = <<>>
    /\ p \in 1..Len(panels) /\ panels[p].attached
    /\ panels[p].shown /\ panels[p].regen /\ panels[p].regenTone # "none"
    /\ startRequest(p, panels[p], panels[p].regenTone)
    /\ UNCHANGED <<activeUI, currentTarget, micro, listenerTimers, clickListeners,
                   boxState, panelRest>>

renderTarget_Active(r) == IF activeUI # 0 THEN activeUI ELSE requests[r].panel

\* The panel whose elements request r writes to: the container, list,
\* loading row and regenerate section were looked up in the panel passed to
\* generateAndShowReplies when it began.
renderTarget(r) == requests[r].panel

\* The response o to the fetch request r waits for: generateContextAwareReplies
\* goes on, and generateAndShowReplies after it.
Respond(r, o) ==
    /\ micro = <<>>
    /\ r \in 1..Len(requests) /\ requests[r].stage \in {"primary", "secondary"}
    /\ LET res == callAIAPI(o)
           p == renderTarget(r)
       IN  IF ~res.threw
           THEN /\ panels' = [panels EXCEPT ![p] =
                       [displayReplies([@ EXCEPT !.loadingShown = FALSE, !.regen = TRUE],
                                       res.replies)
                          EXCEPT !.regenTone = requests[r].tone]]
                /\ requests' = [requests EXCEPT ![r].stage = "shown", ![r].out = res.replies,
                                                 ![r].late = ~panels[p].attached]
           ELSE IF requests[r].stage = "primary"
           THEN /\ requests' = [requests EXCEPT ![r].stage = "secondary",
                                                 ![r].calls = Append(@, "secondary"),
                                                 ![r].failed = Append(@, "primary")]
                /\ UNCHANGED panels
           ELSE /\ panels' = [panels EXCEPT ![p] = showError(@)]
                /\ requests' = [requests EXCEPT ![r].stage = "fallbackTimer",
                                                 ![r].failed = Append(@, "secondary"),
                                                 ![r].late = ~panels[p].attached]
    /\ UNCHANGED <<activeUI, currentTarget, micro, listenerTimers, clickListeners,
                   boxState, panelRest>>

\* The 1500 ms timer of request r: the template replies, or the last message.
FallbackTimer(r) ==
    /\ micro = <<>>
    /\ r \in 1..Len(requests) /\ requests[r].stage = "fallbackTimer"
    /\ LET p == renderTarget(r)
           fb == fallbackOf[panels[requests[r].panel].ctx][requests[r].tone]
       IN  IF fb.threw
           THEN /\ panels' = [panels EXCEPT ![p].loadingText = "unable"]
                /\ requests' = [requests EXCEPT ![r].stage = "failed",
                                                 ![r].late = ~panels[p].attached]
           ELSE /\ panels' = [panels EXCEPT ![p] =
                       [displayReplies([@ EXCEPT !.loadingShown = FALSE], fb.replies)
                          EXCEPT !.regen = TRUE]]
                /\ requests' = [requests EXCEPT ![r].stage = "shown", ![r].out = fb.replies,
                                                 ![r].late = ~panels[p].attached]
    /\ UNCHANGED <<activeUI, currentTarget, micro, listenerTimers, clickListeners,
                   boxState, panelRest>>

\* A click on "Use This Reply" of item i of panel p.
ClickUse(p, i) ==
    /\ micro = <<>>
    /\ p \in 1..Len(panels) /\ panels[p].attached
    /\ panels[p].shown /\ i \in 1..Len(panels[p].list)
    /\ LET b == panels[p].box
       IN  boxState' = [boxState EXCEPT
                          ![b] = insertReply(variant, platform, boxKind[b], @, panels[p].list[i],
                                             rangeThrows)]
    /\ hideActiveUI(panels)
    /\ UNCHANGED <<micro, listenerTimers, requests, panelRest>>

\* Item i of panel p is there to be clicked.
HasItem(p, i) ==
    /\ micro = <<>>
    /\ p \in 1..Len(panels) /\ panels[p].attached
    /\ panels[p].shown /\ i \in 1..Len(panels[p].list)

editRest == <<activeUI, currentTarget, micro, listenerTimers, clickListeners, requests,
              boxState, panelRest>>

\* A click on "Edit" of item i of panel p.
ClickEdit(p, i) ==
    /\ HasItem(p, i)
    /\ panels' = [panels EXCEPT ![p] = editReply(@, i)]
    /\ UNCHANGED editRest

\* The user types text into the edit textarea of item i of panel p.
TypeDraft(p, i, text) ==
    /\ HasItem(p, i) /\ panels[p].editing[i]
    /\ panels' = [panels EXCEPT ![p] = typeDraft(@, i, text)]
    /\ UNCHANGED editRest

\* A click on "Save" of item i of panel p.
ClickSave(p, i) ==
    /\ HasItem(p, i) /\ panels[p].editing[i]
    /\ panels' = [panels EXCEPT ![p] = saveEdit(@, i)]
    /\ UNCHANGED editRest

\* A click on "Cancel" of item i of panel p.
ClickCancel(p, i) ==
    /\ HasItem(p, i) /\ panels[p].editing[i]
    /\ panels' = [panels EXCEPT ![p] = cancelEdit(@, i)]
    /\ UNCHANGED editRest

\* The tone buttons the user of the small model clicks.
PanelTones == {"supportive", "question"}

PanelInit ==
    /\ platform \in Platforms
    /\ variant = "part_000"
    /\ loaded = TRUE
    /\ observing = TRUE
    /\ inDoc = [b \in Boxes |-> TRUE]
    /\ layout = [b \in Boxes |-> Visible]
    /\ matches = [b \in Boxes |-> {1}]
    /\ throwing = {}
    /\ injectThrows = {}
    /\ processed = [b \in Boxes |-> TRUE]
    /\ buttons = [b \in Boxes |-> 1]
    /\ injectCalls = [b \in Boxes |-> 1]
    /\ url = "/watch?v=1"
    /\ lastUrl = "/watch?v=1"
    /\ pollTimer = <<>>
    /\ debounce = <<>>
    /\ settle = <<>>
    /\ burst = 0
    /\ quietScans = 0
    /\ found = <<>>
    /\ cleaned = FALSE
    /\ pc = "idle"
    /\ page \in PanelPages(platform)
    /\ failAt = "none"
    /\ tone = "conversational"
    /\ ctxOut = [threw |-> FALSE, ctx |-> newContext("YouTube")]
    /\ postOut = [threw |-> FALSE, text |-> ""]
    /\ fbOut = [threw |-> FALSE, replies |-> <<>>]
    /\ reply = ""
    /\ boxKind = [b \in Boxes |->
                    IF platform = "YouTube"
                    THEN (IF b = "b1" THEN Editable ELSE Textarea)
                    ELSE (IF b = "b1" THEN QuillEditor ELSE Editable)]
    /\ boxState = [b \in Boxes |-> EmptyBox]
    /\ rangeThrows = FALSE
    /\ PanelIdle
    /\ TextIdle
    /\ CallIdle

PanelNext ==
    \/ \E b \in Boxes, fail \in PanelFails(platform) : ClickButton(b, fail)
    \/ ShowPanel
    \/ AddClickListener
    \/ ClickOutside
    \/ \E p \in 1..MaxPanels : ClickClose(p)
    \/ \E p \in 1..MaxPanels, t \in PanelTones : ClickTone(p, t)
    \/ \E p \in 1..MaxPanels : ClickRegenerate(p)
    \/ \E r \in 1..MaxRequests, o \in PanelOutcomes : Respond(r, o)
    \/ \E r \in 1..MaxRequests : FallbackTimer(r)
    \/ \E p \in 1..MaxPanels, i \in 1..3 : ClickUse(p, i)

SpecPanel == PanelInit /\ [][PanelNext]_vars

(***************************************************************************)
(* Editing the displayed replies: one tone, a response with three lines or *)
(* a failing one, and the text the user types.                             *)
(***************************************************************************)
Slots == 1..3
DraftTexts == {"Edited & <b>"}

EditInit == PanelInit /\ page = RichPage(platform)

EditNext ==
    \/ ClickButton("b1", "none")
    \/ ShowPanel
    \/ AddClickListener
    \/ ClickTone(1, "supportive")
    \/ \E o \in EditOutcomes : Respond(1, o)
    \/ FallbackTimer(1)
    \/ \E i \in Slots : ClickEdit(1, i)
    \/ \E i \in Slots, text \in DraftTexts : TypeDraft(1, i, text)
    \/ \E i \in Slots : ClickSave(1, i)
    \/ \E i \in Slots : ClickCancel(1, i)
    \/ \E i \in Slots : ClickUse(1, i)

SpecEdit == EditInit /\ [][EditNext]_vars

(***************************************************************************)
(* One callAIAPI attempt under fair timers.                                *)
(***************************************************************************)
callRest == <<monVars, pc, extVars, insVars, panelVars, txtVars>>

CallInit ==
    /\ PanelInit
    /\ page = RichPage(platform)

CallNext ==
    \/ \E e \in Endpoints : StartCall(e) /\ UNCHANGED callRest
    \/ CallTick /\ UNCHANGED callRest
    \/ AbortFire /\ UNCHANGED callRest
    \/ FetchRejected /\ UNCHANGED callRest
    \/ HeadersArrive /\ UNCHANGED callRest
    \/ BodyParsed /\ UNCHANGED callRest

\* The timer and its callback run; the endpoint is under no obligation.
SpecCall ==
    /\ CallInit
    /\ [][CallNext]_vars
    /\ WF_vars((\E e \in Endpoints : StartCall(e)) /\ UNCHANGED callRest)
    /\ WF_vars(CallTick /\ UNCHANGED callRest)
    /\ WF_vars(AbortFire /\ UNCHANGED callRest)

(***************************************************************************)
(* findCommentBoxes on every small page, with selectors that throw.        *)
(***************************************************************************)
\* Selector index sets a box may match: none, one, two, three selectors.  On
\* YouTube selector 2 matches a div and the others a textarea; on LinkedIn
\* one editor may match any of the four.
MatchSets(p) ==
    IF p = "YouTube"
    THEN {{}, {1}, {2}, {3}, {4}, {3, 4}, {1, 3, 4}}
    ELSE {{}, {1}, {3}, {4}, {1, 2}, {2, 4}, {1, 3, 4}}

\* The boxes for which injectUI fails on the scanned page.
InjectFailChoices == {{}, {"b2"}}

FindInit ==
    /\ platform \in Platforms
    /\ variant = "part_000"
    /\ loaded = TRUE
    /\ observing = TRUE
    /\ inDoc \in [Boxes -> BOOLEAN]
    /\ layout \in [Boxes -> Layouts]
    /\ \A b \in Boxes : ~inDoc[b] => layout[b] = NoLayout
    /\ matches \in [Boxes -> MatchSets(platform)]
    /\ throwing \in SUBSET SelectorIdx
    /\ injectThrows \in InjectFailChoices
    /\ processed = [b \in Boxes |-> FALSE]
    /\ buttons = [b \in Boxes |-> 0]
    /\ injectCalls = [b \in Boxes |-> 0]
    /\ url \in Urls
    /\ lastUrl = url
    /\ pollTimer = <<>>
    /\ debounce = <<>>
    /\ settle = <<>>
    /\ burst = 0
    /\ quietScans = 0
    /\ found = <<>>
    /\ cleaned = FALSE
    /\ pc = "ready"
    /\ ExtractIdle
    /\ InsertIdle
    /\ PanelIdle
    /\ TextIdle
    /\ CallIdle

\* One call of scanForCommentBoxes, the first or the second on the page:
\* const commentBoxes = this.findCommentBoxes(), then the forEach over them.
CallFind ==
    /\ pc \in {"ready", "scanned"}
    /\ found' = findCommentBoxes
    /\ Scan
    /\ pc' = IF pc = "ready" THEN "scanned" ELSE "done"
    /\ UNCHANGED <<cfgVars, cleaned, loaded, observing, domVars, url, lastUrl,
                   pollTimer, debounce, settle, burst>>

FindNext == CallFind /\ UNCHANGED <<extVars, insVars, panelVars, txtVars, callVars>>

SpecFind == FindInit /\ [][FindNext]_vars

\* C10: a selector that throws is skipped and every other selector of the list
\* is still evaluated: the result holds exactly the valid attached boxes
\* matched by some selector that does not throw.
C10_ThrowingSelectorSkipped ==
    pc = "done" =>
        \A b \in Boxes :
            b \in Range(found)
                <=> (inDoc[b] /\ isValidCommentBox(b) /\ matches[b] \ throwing # {})

\* A selector threw and a box matched only by a later selector was returned.
C10_Witness ==
    /\ pc = "done"
    /\ \E i \in throwing, b \in Boxes :
          /\ b \in Range(found)
          /\ matches[b] \ throwing # {}
          /\ \A j \in matches[b] \ throwing : j > i

(***************************************************************************)
(* Properties of the scanner and the monitor.                              *)
(***************************************************************************)
\* A step that runs scanForCommentBoxes.
ScanStep == PageLoad \/ DebounceFire \/ SettleFire \/ UrlPollChangedSimple

\* C2: a scan that runs when no comment box and no marker has changed since
\* the previous scan injects no UI and changes no processed marker.
C2_RescanIdempotent ==
    [][(ScanStep /\ quietScans >= 1)
         => (processed' = processed /\ buttons' = buttons /\ injectCalls' = injectCalls)]_vars

\* Two scans have run on an unchanged page that holds a processed box.
C2_Witness ==
    quietScans = 2 /\ \E b \in Boxes : inDoc[b] /\ processed[b] /\ buttons[b] = 1

\* The interval callback of part_000 observes a changed URL.
PollSeesChange ==
    variant = "part_000" /\ pollTimer = <<0>> /\ url # lastUrl /\ lastUrl' = url

\* The marker of b was removed by a clearing: b has a button and no marker.
WasCleared(b) == ~processed[b] /\ buttons[b] >= 1

\* C3: when the URL poll observes a changed URL every attached element loses
\* its processed marker, and the next scan that finds a box so cleared injects
\* UI for it again and marks it again.
C3_RouteChangeClearsMarkers ==
    [][ /\ PollSeesChange => \A b \in Boxes : inDoc[b] => ~processed'[b]
        /\ ScanStep => \A b \in Boxes :
               (WasCleared(b) /\ b \in Range(findCommentBoxes))
                   => (processed'[b] /\ injectCalls'[b] = 1 /\ buttons'[b] = Sat(buttons[b]))
      ]_vars

\* A box processed before a route change has been given UI a second time.
C3_Witness ==
    url = lastUrl /\ \E b \in Boxes : inDoc[b] /\ processed[b] /\ buttons[b] = 2

\* C5: between two consecutive clearings of the markers injectUI is invoked at
\* most once for each comment box.
C5_InjectOncePerEpoch ==
    \A b \in Boxes : injectCalls[b] <= 1

\* A box matched by two selectors has been injected once in each of two epochs.
C5_Witness ==
    \E b \in Boxes : Cardinality(matches[b]) >= 2 /\ injectCalls[b] = 1 /\ buttons[b] = 2

\* The observer's callback sees a qualifying batch.
QualifyingBatch ==
    observing /\ (RelatedNodeAdded \/ \E b \in Boxes, lay \in Layouts : AddBox(b, lay, TRUE))

\* C6: at most one debounce timer is pending; a qualifying batch leaves exactly
\* one pending timer, a new one of 500 ms; the rescan of a burst of batches runs
\* once, leaving no debounce timer pending.
C6_TrailingDebounce ==
    [][ /\ Len(debounce') <= 1
        /\ QualifyingBatch
             => debounce' = << [rem |-> Ticks(DebounceDelay), handle |-> TRUE] >>
        /\ DebounceFire => (burst >= 1 /\ debounce' = <<>>)
      ]_vars

\* Two or more qualifying batches have arrived and a single timer is due.
C6_Witness ==
    burst >= 2 /\ Len(debounce) = 1 /\ debounce[1].rem = 0


\* C8: extraction never throws: when a platform-specific extraction step
\* fails, extractComprehensiveContext (and content.js's extractPostContent)
\* returns normally, and the post content it returns is the sentinel
\* 'Unable to extract post content'.
C8_ExtractNeverThrows ==
    pc \in {"extracted", "done"} =>
        /\ ~ctxOut.threw
        /\ ~postOut.threw
        /\ (variant = "part_000" /\ failAt \in Range(domSteps(platform)))
               => ctxOut.ctx.postContent = Sentinel
        /\ (variant = "content" /\ failAt \in Range(simpleSteps(platform)))
               => postOut.text = Sentinel

\* A later YouTube step failed after the title had been read: the context
\* is partial and carries the sentinel.
C8_Witness ==
    /\ pc = "extracted"
    /\ variant = "part_000"
    /\ failAt = "getYouTubeComments"
    /\ ctxOut.ctx.postTitle = "Great Rust Tutorial"
    /\ ctxOut.ctx.postContent = Sentinel

\* C9: generateFallbackReplies never fails: for every tone and every context
\* extractComprehensiveContext returned, the partial one of a failed
\* extraction included, it returns 3 template strings without throwing.
C9_FallbackNeverFails ==
    pc = "done" =>
        /\ ~fbOut.threw
        /\ Len(fbOut.replies) = 3
        /\ \A i \in 1..3 : fbOut.replies[i] # ""


\* C7: for every reply string, one containing markup included, insertReply
\* assigns to the innerHTML of a rich-text target only the escaped text:
\* whenever innerHTML was assigned, it is the paragraph of escapeHtml(reply).
C7_InsertEscapes ==
    pc = "inserted" =>
        \A b \in Boxes :
            boxState[b].wrote = "innerHTML" =>
                boxState[b].html = "<p>" \o escapeHtml(reply) \o "</p>"


\* The panels attached to the document.
AttachedPanels == {p \in 1..Len(panels) : panels[p].attached}

\* C1: after any sequence of floating-button clicks, tone selections, close
\* clicks, outside clicks and 'Use' clicks at most one options panel is
\* attached to the document, and it is the active one; the panel that was
\* active when a floating button was clicked is removed before the new panel
\* is attached.
C1_OnePanel ==
    /\ Cardinality(AttachedPanels) <= 1
    /\ \A p \in AttachedPanels : activeUI = p
    /\ micro # <<>> => AttachedPanels = {}
    /\ \A p \in 1..Len(panels) :
          panels[p].replaced # 0 => ~panels[panels[p].replaced].attached

\* The second panel was opened on another box while the first, with replies
\* shown, was still open: the first is detached, the second attached.
C1_Witness ==
    /\ Len(panels) = 2
    /\ panels[2].replaced = 1
    /\ panels[2].attached /\ ~panels[1].attached
    /\ panels[1].box # panels[2].box
    /\ panels[1].shown
    /\ activeUI = 2

\* C4: for every tone and every outcome of the remote calls a generation
\* request that has ended has produced exactly 3 non-empty reply strings
\* for display.
C4_ThreeReplies ==
    \A r \in 1..Len(requests) :
        requests[r].stage \in {"shown", "failed"} =>
            /\ Len(requests[r].out) = 3
            /\ \A i \in 1..3 : requests[r].out[i] # ""


\* C11: once cleanup() has run the system is torn down: cleanup disconnects
\* the observer, removes the open panel and leaves no timer pending that
\* would call scanForCommentBoxes, so no rescan runs after cleanup.
C11_NoRescanAfterCleanup ==
    [][ /\ Cleanup => (~observing' /\ activeUI' = 0 /\ debounce' = <<>> /\ settle' = <<>>)
        /\ cleaned => ~ScanStep ]_vars


\* The tokens of a list of words, from the vocabulary's table.
RECURSIVE TokensOf(_)
TokensOf(ws) ==
    IF ws = <<>> THEN <<>>
    ELSE (IF Head(ws) \in DOMAIN Vocabulary THEN Vocabulary[Head(ws)] ELSE << Head(ws) >>)
         \o TokensOf(Tail(ws))

\* The number of tokens of the input that are in the lexicon.
Hits(lexicon) ==
    Cardinality({i \in 1..Len(TokensOf(wordsIn)) : TokensOf(wordsIn)[i] \in lexicon})

\* C12: analyzeSentiment returns 'positive' when the text has strictly more
\* tokens in the positive lexicon than in the negative one, 'negative' when
\* strictly fewer, 'neutral' when the counts are equal, both zero and the
\* empty text included.
C12_SentimentByCounts ==
    pc \in {"sentiment", "done"} =>
        sentOut = IF Hits(positiveWords) > Hits(negativeWords) THEN "positive"
                  ELSE IF Hits(positiveWords) < Hits(negativeWords) THEN "negative"
                  ELSE "neutral"

\* A text in mixed case with punctuation: two positive tokens against one
\* negative one, and a word that only starts like a lexicon word.
C12_Witness ==
    /\ pc = "sentiment"
    /\ wordsIn = << "Great", "love-hate", "lovely" >>
    /\ textIn = "Great love-hate lovely"
    /\ sentOut = "positive"


\* C13 as stated: extractTopics("the quick quick brown brown brown fox")
\* returns ["brown", "quick", "fox"].
C13_FoxKept ==
    (pc = "done" /\ wordsIn = FoxWords) => topicsOut = << "brown", "quick", "fox" >>

\* C13: extractTopics("the quick quick brown brown brown fox") returns
\* ["brown", "quick"]: the words are ranked by frequency, and "the" and "fox",
\* of 3 characters, are dropped by the filter word.length > 3.
C13_FoxDropped ==
    (pc = "done" /\ wordsIn = FoxWords) => topicsOut = << "brown", "quick" >>

\* The topics of the fox sentence have been extracted.
C13_Witness ==
    /\ pc = "done"
    /\ textIn = "the quick quick brown brown brown fox"
    /\ Len(topicsOut) = 2
    /\ topicsOut[1] = "brown"


\* C14: after insertReply has written a reply into a plain textarea and the
\* caret placement has run, the textarea holds the reply and its selection
\* is collapsed at the end of it, set by setSelectionRange to the length of
\* the text.
C14_TextareaCaretAtEnd ==
    (pc = "inserted" /\ boxKind["b1"] = Textarea) =>
        /\ boxState["b1"].value = reply
        /\ boxState["b1"].selStart = Len(reply)
        /\ boxState["b1"].selEnd = Len(reply)
        /\ boxState["b1"].selRangeSet


\* C15: for every slot i of the displayed replies and any sequence of Edit,
\* typing, Save and Cancel, "Use" on slot i inserts the text of the most
\* recent Save on slot i, or the original reply if there was none: Save on
\* slot i makes the textarea's text entry i of the replies and leaves the
\* other entries alone, Edit, typing and Cancel leave every entry alone, the
\* text an item shows is its entry, and Use on slot i inserts entry i.
C15_UseInsertsLastSaved ==
    [][ /\ \A i \in Slots :
             /\ ClickSave(1, i) =>
                    panels'[1].list = [panels[1].list EXCEPT ![i] = panels[1].drafts[i]]
             /\ (ClickEdit(1, i) \/ ClickCancel(1, i)
                    \/ \E text \in DraftTexts : TypeDraft(1, i, text)) =>
                    panels'[1].list = panels[1].list
             /\ ClickUse(1, i) =>
                    boxState'["b1"] = insertReply(variant, platform, boxKind["b1"],
                                                  boxState["b1"], panels[1].texts[i], rangeThrows)
        /\ Len(panels') >= 1 => panels'[1].texts = panels'[1].list ]_vars

\* A reply that was edited and saved has been inserted with "Use".
C15_Witness ==
    /\ platform = "YouTube"
    /\ activeUI = 0
    /\ boxState["b1"].wrote = "textContent"
    /\ boxState["b1"].html = "Edited &amp; &lt;b&gt;"


FirstMatch(b) == CHOOSE i \in matches[b] \ throwing : \A j \in matches[b] \ throwing : i <= j

\* C17: the result of findCommentBoxes contains each element at most once,
\* in the order of the elements' first matching selectors, even when an
\* element is matched by several selectors of the platform's list.
C17_ResultWithoutDuplicates ==
    pc \in {"scanned", "done"} =>
        /\ \A i, j \in 1..Len(found) : i # j => found[i] # found[j]
        /\ \A i, j \in 1..Len(found) : i < j => FirstMatch(found[i]) <= FirstMatch(found[j])


\* The non-blank lines of the text of a well-formed response.
LinesOf(o) ==
    SelectSeq(splitChar(IF o.hasText THEN o.text ELSE "", "\n", ""), LAMBDA l : trim(l) # "")

\* C18: when a well-formed 2xx response has fewer than 3 non-blank lines,
\* callAIAPI does not fail: it returns exactly 3 strings, the lines received
\* followed by padding lines, and they are displayed.
C18_ShortResponsePadded ==
    [][\A o \in EditOutcomes :
         (Respond(1, o) /\ o.kind = "json" /\ Len(LinesOf(o)) < 3) =>
             /\ requests'[1].stage = "shown"
             /\ Len(requests'[1].out) = 3
             /\ SubSeq(requests'[1].out, 1, Len(LinesOf(o))) = LinesOf(o)
             /\ panels'[1].list = requests'[1].out]_vars


\* The stage a request may move to from each stage: loading with the primary
\* and then the secondary endpoint, the error row with the fallback timer
\* pending, and the replies displayed.
StageSteps ==
    {<<"primary", "shown">>, <<"primary", "secondary">>, <<"secondary", "shown">>,
     <<"secondary", "fallbackTimer">>, <<"fallbackTimer", "shown">>}

\* C19: every invocation of generateAndShowReplies goes from loading either
\* to its replies displayed or to the error row, the fallback timer and the
\* template replies displayed; it never ends with neither, and when it ends
\* the loading row is hidden and the 3 replies are rendered in the list.
C19_EndsDisplayed ==
    [][\A r \in 1..Len(requests') :
         LET now == requests'[r].stage
             pn == panels'[requests'[r].panel]
         IN  /\ now # "failed"
             /\ IF r > Len(requests) THEN now \in {"primary", "fallbackTimer"}
                ELSE \/ requests[r].stage = now
                     \/ <<requests[r].stage, now>> \in StageSteps
             /\ (now = "shown" /\ (r > Len(requests) \/ requests[r].stage # "shown")) =>
                   (Len(pn.list) = 3 /\ pn.list = requests'[r].out /\ ~pn.loadingShown)]_vars


\* C20: the endpoint attempts are strictly ordered.  The secondary endpoint
\* is called only after the primary attempt has failed; the template
\* fallback is entered only after both attempts have failed; a successful
\* primary attempt is followed by neither; and every endpoint failure is
\* caught: the request goes on to the next attempt or to the fallback.
C20_AttemptsOrdered ==
    \A r \in 1..Len(requests) :
        LET q == requests[r]
        IN  /\ q.calls \in {<<>>, <<"primary">>, <<"primary", "secondary">>}
            /\ q.calls = <<"primary", "secondary">> => q.failed # <<>>
            /\ q.stage \in {"fallbackTimer", "failed"} =>
                   q.failed = <<"primary", "secondary">>
            /\ (q.stage = "shown" /\ q.failed = <<>>) => q.calls = <<"primary">>
            /\ q.failed = <<>> => q.stage \in {"primary", "shown"}
            /\ q.failed = <<"primary">> => q.stage \in {"secondary", "shown"}


\* C21: when a panel was closed while a request for it, or the request's
\* fallback timer, was pending, the late completion writes only to the
\* elements of the detached panel: no panel attached to the document
\* changes, no panel is attached or opened, and activeUI and currentTarget
\* stay as they are (null, or the newer panel opened since).
C21_LateCompletionInert ==
    [][\A r \in 1..Len(requests) :
         (requests'[r] # requests[r] /\ ~panels[requests[r].panel].attached) =>
             /\ activeUI' = activeUI /\ currentTarget' = currentTarget
             /\ Len(panels') = Len(panels)
             /\ \A p \in 1..Len(panels) :
                   /\ panels'[p].attached = panels[p].attached
                   /\ panels[p].attached => panels'[p] = panels[p]
             /\ boxState' = boxState /\ micro' = micro]_vars

\* The replies of a request were rendered after its panel had been closed,
\* while a newer panel is open and still shows its tone buttons only.
C21_Witness ==
    \E r \in 1..Len(requests) :
        /\ requests[r].stage = "shown" /\ requests[r].late
        /\ ~panels[requests[r].panel].attached
        /\ panels[requests[r].panel].list = requests[r].out
        /\ activeUI # 0 /\ activeUI # requests[r].panel
        /\ panels[activeUI].attached /\ panels[activeUI].list = <<>>


\* C22: every URL change the poll observes is followed by its rescan after
\* the settle delay: the navigation timer at the head of the pending ones
\* counts down from any remaining time to the next lower one, whatever
\* debounce rescheduling and further URL changes happen meanwhile, and when
\* it is due it fires.
C22_SettleRescanHappens ==
    \A k \in 0..Ticks(SettleDelay) :
        (settle # <<>> /\ Head(settle) = k)
            ~> (IF k = 0 THEN settle = <<>> \/ Head(settle) > 0
                ELSE settle # <<>> /\ Head(settle) = k - 1)

\* The rescan of one URL change has run while the timer of a further URL
\* change and a rescheduled debounce timer are pending.
C22_Witness ==
    /\ settle = << Ticks(SettleDelay) - Ticks(PollInterval) >>
    /\ quietScans >= 1
    /\ debounce # <<>> /\ burst = 2


\* The interval callback of content.js observes a changed URL.
SimplePollSeesChange ==
    variant = "content" /\ pollTimer = <<0>> /\ url # lastUrl /\ lastUrl' = url

\* C23: in content.js a URL change observed by the poll removes the
\* processed marker of every attached element and schedules the rescan
\* after the settle delay, so that a box processed before the route change
\* is given UI again by the next scan.
C23_SimpleRouteChangeClears ==
    [][ /\ SimplePollSeesChange =>
              /\ \A b \in Boxes : inDoc[b] => ~processed'[b]
              /\ settle' = Append(settle, Ticks(SettleDelay))
        /\ ScanStep => \A b \in Boxes :
               (WasCleared(b) /\ b \in Range(findCommentBoxes))
                   => (processed'[b] /\ buttons'[b] = Sat(buttons[b]))
      ]_vars


C25_OnlyRelatedBatchesSchedule ==
    [][\A added \in Batches :
         MutationBatch(added) =>
             IF \E i \in 1..Len(added) :
                    added[i].nodeType = ELEMENT_NODE /\ (added[i].matches \/ added[i].holds)
             THEN debounce' = << [rem |-> Ticks(DebounceDelay), handle |-> TRUE] >>
             ELSE debounce' = debounce /\ burst' = burst]_vars

\* A qualifying batch has started a debounce timer, which is pending with
\* less than its full delay left, so that a restart by a later batch would show.
C25_Witness ==
    /\ observing
    /\ debounce # <<>> /\ debounce[1].rem < Ticks(DebounceDelay)
    /\ burst >= 1


\* C26: a scan leaves alone every attached box that a selector matches and
\* that has no offsetParent or a rectangle of zero width or zero height: it
\* gets no UI and no processed marker.  A scan that finds such a box visible
\* and still unmarked gives it UI and marks it.
C26_InvisibleBoxLeftEligible ==
    [][ScanStep =>
          \A b \in Boxes :
              (inDoc[b] /\ \E i \in matches[b] : i \notin throwing) =>
                  IF ~layout[b].offsetParent \/ layout[b].width = 0 \/ layout[b].height = 0
                  THEN /\ processed'[b] = processed[b]
                       /\ buttons'[b] = buttons[b]
                       /\ injectCalls'[b] = injectCalls[b]
                  ELSE ~processed[b] =>
                           (processed'[b] /\ buttons'[b] = Sat(buttons[b]))]_vars

\* A scan has run on the page as it is, which holds a matched box of zero
\* width or height that has neither marker nor button.
C26_Witness ==
    /\ quietScans >= 1
    /\ \E b \in Boxes :
           /\ inDoc[b] /\ \E i \in matches[b] : i \notin throwing
           /\ layout[b].offsetParent
           /\ layout[b].width = 0 \/ layout[b].height = 0
           /\ ~processed[b] /\ buttons[b] = 0


\* C27: on both platforms the postContent of the Context returned by
\* extractComprehensiveContext has at most 1000 characters, and when no
\* step has thrown its sentiment and topics are those of that postContent.
C27_PostContentCapped ==
    (variant = "part_000" /\ pc \in {"extracted", "done"}) =>
        /\ Len(ctxOut.ctx.postContent) <= 1000
        /\ failAt \notin Range(domSteps(platform)) =>
               /\ ctxOut.ctx.sentiment = analyzeSentiment(ctxOut.ctx.postContent)
               /\ ctxOut.ctx.topics = [defined |-> TRUE,
                                       list |-> extractTopics(ctxOut.ctx.postContent)]


\* C28: every Context returned by extractComprehensiveContext, whether or
\* not a step has thrown, has a topics property that is a list of at most 5
\* strings, and a sentiment among positive, negative and neutral.
C28_ContextWellFormed ==
    (variant = "part_000" /\ pc \in {"extracted", "done"}) =>
        /\ ctxOut.ctx.topics.defined
        /\ Len(ctxOut.ctx.topics.list) <= 5
        /\ ctxOut.ctx.sentiment \in {"positive", "negative", "neutral"}


\* Whether text sub occurs in text s.
Contains(s, sub) ==
    \E i \in 1..(Len(s) - Len(sub) + 1) : SubSeq(s, i, i + Len(sub) - 1) = sub

\* C29: the template replies of every tone never embed an absent field: no
\* reply holds the text "undefined", and with no topics or no author name
\* the templates that use the field read with their default wording.
C29_TemplatesUseDefaults ==
    (pc = "done" /\ ~fbOut.threw) =>
        /\ \A i \in 1..Len(fbOut.replies) : ~Contains(fbOut.replies[i], "undefined")
        /\ (tone = "question" /\ ctxOut.ctx.topics.list = <<>>) =>
               Contains(fbOut.replies[1], "your thoughts on this topic.")
        /\ (tone = "professional" /\ ctxOut.ctx.authorInfo.name = "") =>
               Contains(fbOut.replies[2], "Excellent analysis. The point about")


\* The words of the input as the topic extractor reads them: in lower case,
\* without the characters that are neither word characters nor spaces.
TopicTokens == [i \in 1..Len(wordsIn) |-> join(TokensOf(<< wordsIn[i] >>), "")]

\* C30: extractTopics returns at most 5 tokens of the text, all different,
\* none a stop-word or of 3 characters or fewer, in descending order of
\* frequency, and tokens of equal frequency in the order of their first
\* occurrence in the text, tokens made of digits included.
C30_TopicsRanked ==
    pc = "done" =>
        LET toks == TopicTokens
            count(t) == Cardinality({i \in 1..Len(toks) : toks[i] = t})
            first(t) == CHOOSE i \in 1..Len(toks) :
                            toks[i] = t /\ \A j \in 1..(i - 1) : toks[j] # t
        IN  /\ Len(topicsOut) <= 5
            /\ \A i \in 1..Len(topicsOut) :
                   /\ topicsOut[i] \in Range(toks)
                   /\ Len(topicsOut[i]) > 3
                   /\ topicsOut[i] \notin stopWords
            /\ \A i, j \in 1..Len(topicsOut) :
                   i < j =>
                       /\ topicsOut[i] # topicsOut[j]
                       /\ count(topicsOut[i]) >= count(topicsOut[j])
                       /\ count(topicsOut[i]) = count(topicsOut[j])
                              => first(topicsOut[i]) < first(topicsOut[j])


\* C31: findLinkedInPost returns the post container whenever one lies within
\* 10 parentElement steps above the comment box and null when the nearest one
\* is farther or there is none, and it reads the classList of at most 10
\* elements.  The author of the post is extracted exactly when the container
\* was returned.
C31_PostWithinTenHops ==
    (platform = "LinkedIn" /\ variant = "part_000" /\ pc \in {"extracted", "done"}
        /\ failAt \notin Range(domSteps(platform)) /\ page.postAuthor.found) =>
        /\ (page.hops >= 0 /\ page.hops <= 10)
               <=> ctxOut.ctx.authorInfo.str = trim(page.postAuthor.text)
        /\ walkUp(page, 0, 0).inspected <= 10


\* C32: every callAIAPI attempt terminates.  While the attempt is in flight,
\* from the sending of the request until the body has been parsed, the abort
\* timer is armed, so that an attempt in flight always comes to its end, and
\* no timer is left once it has ended.
C32_AttemptTerminates ==
    /\ [](attempt.phase \in {"fetching", "reading"} => attempt.armed)
    /\ (attempt.phase \in {"fetching", "reading"}) ~> (attempt.phase = "done")
    /\ [](attempt.phase = "done" => ~attempt.armed)


\* C33: when insertReply has replaced the content of a contenteditable
\* target, an input event and a change event have been dispatched on it, and
\* a blur event too on LinkedIn, each of them after the content was written.
C33_EventsAfterWrite ==
    (pc = "inserted" /\ variant = "part_000" /\ boxKind["b1"].contentEditable) =>
        LET events == boxState["b1"].events
            names == {events[i].name : i \in 1..Len(events)}
        IN  /\ "input" \in names
            /\ "change" \in names
            /\ platform = "LinkedIn" => "blur" \in names
            /\ \A i \in 1..Len(events) : events[i].after # "none"


\* C34: in every reachable state each comment box attached to the document
\* has at most one floating button injected for it, also after a route
\* change on a page that keeps the box.
C34_OneButtonPerBox ==
    \A b \in Boxes : inDoc[b] => buttons[b] <= 1


\* C35: every box carrying the processed marker had a floating button
\* injected for it; a box for which injectUI failed is left unmarked, so that
\* a later scan tries it again.
C35_ProcessedHasButton ==
    \A b \in Boxes : processed[b] => buttons[b] >= 1


\* C36: when two tones were selected one after the other in the same panel,
\* then once both requests and their delayed fallbacks have completed the
\* panel shows the replies generated for the tone selected last, and its
\* regenerate button repeats that tone, in whatever order the responses came.
C36_LatestToneShown ==
    (/\ Len(requests) = 2
     /\ requests[1].panel = requests[2].panel
     /\ requests[1].tone # requests[2].tone
     /\ requests[1].stage \in {"shown", "failed"}
     /\ requests[2].stage = "shown")
        => /\ panels[requests[2].panel].list = requests[2].out
           /\ panels[requests[2].panel].regenTone = requests[2].tone


\* C37: at most one click-outside listener is registered on the document at
\* any time, and none while no panel is open, also when the panel is closed
\* before the 100 ms registration timer has fired.
C37_OneClickListener ==
    /\ clickListeners <= 1
    /\ (activeUI = 0 /\ micro = <<>>) => clickListeners = 0


\* C38: every change of the page URL made after the poll has started is
\* eventually detected by the poll and followed by marker clearing: a pending
\* change stops being pending, and it does so only by a poll that takes over
\* the new URL and clears the markers, also when the page goes away and back
\* to the original URL between two polls.
C38_EveryUrlChangeDetected ==
    /\ (loaded /\ url # lastUrl) ~> (url = lastUrl)
    /\ [][(loaded /\ url # lastUrl /\ url' = lastUrl')
            => (/\ lastUrl' = url
                /\ \A b \in Boxes : ~processed'[b]
                /\ Len(settle') = Len(settle) + 1)]_vars


\* C39: between the detection of a URL change and the end of its settle
\* delay no scan runs: while the navigation rescan is pending and not yet
\* due, no step marks a box or injects a button.
C39_NoScanWhileSettling ==
    [][(settle # <<>> /\ \A i \in 1..Len(settle) : settle[i] > 0)
         => (/\ buttons' = buttons
             /\ \A b \in Boxes : processed'[b] => processed[b])]_vars


\* C40: whenever control is back at the event loop, activeUI is null exactly
\* when currentTarget is null, and a non-null activeUI is the panel that
\* showReplyOptions attached last, still attached, with currentTarget the box
\* it was opened for.
C40_ActivePanelConsistent ==
    micro = <<>> =>
        /\ (activeUI = 0 <=> currentTarget = "null")
        /\ activeUI # 0 =>
              /\ activeUI = Len(panels)
              /\ panels[activeUI].attached
              /\ currentTarget = panels[activeUI].box

\* A second panel is the active one, opened for another box than the first,
\* which was detached.
C40_Witness ==
    /\ micro = <<>>
    /\ activeUI = 2
    /\ ~panels[1].attached
    /\ panels[1].box # panels[2].box
    /\ currentTarget = panels[2].box

====
